---- MODULE Spec2Model ----
(***************************************************************************)
(* Model of the AntColony repository: the CIACO route optimizer            *)
(* (CIACO_Algo.py, helper_functions.py) and the dynamic assignment and     *)
(* recovery engine that owns one optimizer instance (dynamic_routing.py).  *)
(*                                                                         *)
(* Conventions.                                                            *)
(*  - A point is a pair <<x, y>> of integers.  The point sets used here    *)
(*    are corners of a 3 x 4 rectangle, so that every Euclidean distance   *)
(*    is an integer (3, 4 or 5) and sums/comparisons of distances are the  *)
(*    exact values the floating point code computes.                       *)
(*  - Python lists are sequences; index 0 of the code is index 1 here.     *)
(*  - None for an Optional list/array is the empty sequence <<>>;          *)
(*    None for an Optional id is the string "None".                        *)
(*  - float('inf') is the integer Infinity, larger than any route length.  *)
(***************************************************************************)
EXTENDS Integers, Sequences, FiniteSets, TLC

(***************************************************************************)
(* Bounds of the model                                                     *)
(***************************************************************************)
MaxCalls == 2        \* optimize_route calls made on one optimizer instance
MaxTime == 2         \* the clock runs over 0..MaxTime (minutes)

(***************************************************************************)
(* Program constants                                                       *)
(***************************************************************************)
Infinity == 1000000          \* float('inf')
KMeansMaxIter == 100         \* for _ in range(100)
SpeedKmh == 80               \* distance_to_pickup / 80
OverloadNum == 9             \* delivery['weight'] * 0.9  (9/10)
OverloadDen == 10
DefaultNumClusters == 3      \* CIACO.__init__ default num_clusters
DefaultAlpha == 1            \* CIACO.__init__ default alpha = 1.0
DefaultBeta == 2             \* CIACO.__init__ default beta = 2.0
DefaultEvapPct == 10         \* CIACO.__init__ default evaporation_rate = 0.1
DefaultElitist == 2          \* CIACO.__init__ default elitist_factor = 2.0
SlackNum == 12               \* current_distance * 1.2  (12/10)
SlackDen == 10
PUnit == 3600                \* fixed point: pheromone 1.0 is PUnit units
HugeContribution == 100000   \* 1.0 / (0 + 1e-10), saturated above every other deposit

None == "None"

(***************************************************************************)
(* Generic helpers                                                         *)
(***************************************************************************)
Range(s) == {s[i] : i \in 1..Len(s)}

RECURSIVE SumSeq(_)
SumSeq(s) == IF s = <<>> THEN 0 ELSE Head(s) + SumSeq(Tail(s))

Min2(a, b) == IF a <= b THEN a ELSE b
Max2(a, b) == IF a >= b THEN a ELSE b

\* number of positions of s holding value v
Count(s, v) == Cardinality({i \in 1..Len(s) : s[i] = v})

\* s and t hold the same values with the same multiplicities
SameBag(s, t) ==
    /\ Len(s) = Len(t)
    /\ \A v \in Range(s) \cup Range(t) : Count(s, v) = Count(t, v)

\* list.index(v): first position holding v
IndexOf(s, v) == CHOOSE i \in 1..Len(s) : s[i] = v /\ \A j \in 1..(i-1) : s[j] # v

\* list.remove(v): drop the first occurrence of v (v is present)
RemoveFirst(s, v) ==
    LET i == IndexOf(s, v)
    IN  SubSeq(s, 1, i-1) \o SubSeq(s, i+1, Len(s))

\* np.argmin: first position of the minimum
ArgMin(s) == CHOOSE i \in 1..Len(s) :
                 /\ \A j \in 1..Len(s) : s[i] <= s[j]
                 /\ \A j \in 1..(i-1) : s[j] > s[i]

\* all sequences over S of length lo..hi
SeqsOf(S, lo, hi) == UNION {[1..n -> S] : n \in lo..hi}

(***************************************************************************)
(* helper_functions.py                                                     *)
(***************************************************************************)
\* math.sqrt on the perfect squares that occur (undefined elsewhere)
ISqrt(n) == CHOOSE r \in 0..n : r * r = n

euclidean_distance(loc1, loc2) ==
    ISqrt((loc1[1] - loc2[1]) * (loc1[1] - loc2[1])
          + (loc1[2] - loc2[2]) * (loc1[2] - loc2[2]))

RECURSIVE LegSum(_, _)
LegSum(st, i) ==
    IF i >= Len(st) THEN 0
    ELSE euclidean_distance(st[i], st[i+1]) + LegSum(st, i+1)

total_route_distance(st, return_to_depot) ==
    IF st = <<>> THEN 0
    ELSE LegSum(st, 1)
         + (IF return_to_depot /\ Len(st) > 1
            THEN euclidean_distance(st[Len(st)], st[1]) ELSE 0)

\* visibility[i][j] = 1/(d + 1e-6) for i # j, 0 on the diagonal.  Only its
\* sign enters the model (1: positive, 0: zero).
calculate_visibility_matrix(st) ==
    [i \in 1..Len(st) |-> [j \in 1..Len(st) |-> IF i # j THEN 1 ELSE 0]]

\* normalize_matrix keeps the support of the weights unless they sum to 0,
\* in which case every index of the whole range gets weight 1/size.
\* a normalisation without the uniform fallback
normalize_matrix_M(w) == w

normalize_matrix(w) ==
    IF \A i \in DOMAIN w : w[i] = 0
    THEN [i \in DOMAIN w |-> 1]
    ELSE w

(***************************************************************************)
(* CIACO_Algo.py: clustering seeder                                        *)
(*                                                                         *)
(* A centroid is <<sx, sy, c>>, standing for the point (sx/c, sy/c): the   *)
(* mean of c stops whose coordinates sum to (sx, sy).  Distances to        *)
(* centroids are compared exactly by cross-multiplication.                 *)
(***************************************************************************)
\* numerator of the squared distance from point p to centroid ce
\* (the denominator is ce[3]^2)
CentroidDist2Num(p, ce) ==
    (p[1] * ce[3] - ce[1]) * (p[1] * ce[3] - ce[1])
    + (p[2] * ce[3] - ce[2]) * (p[2] * ce[3] - ce[2])

\* euclidean_distance(p, c1) < euclidean_distance(p, c2)
CentroidCloser(p, c1, c2) ==
    CentroidDist2Num(p, c1) * c2[3] * c2[3] < CentroidDist2Num(p, c2) * c1[3] * c1[3]

\* np.argmin(distances): first centroid at minimum distance from p
NearestCentroid(p, centroids) ==
    CHOOSE k \in 1..Len(centroids) :
        /\ \A m \in 1..Len(centroids) : ~CentroidCloser(p, centroids[m], centroids[k])
        /\ \A m \in 1..(k-1) : CentroidCloser(p, centroids[k], centroids[m])

Indices(n) == [i \in 1..n |-> i]

\* an assignment that puts a stop into every group whose centroid is
\* nearest
AssignClusters_M(points, centroids, num_clusters) ==
    [k \in 1..num_clusters |->
        SelectSeq(Indices(Len(points)),
                  LAMBDA i : /\ k <= Len(centroids)
                             /\ \A m \in 1..Len(centroids) :
                                    ~CentroidCloser(points[i], centroids[m], centroids[k]))]

\* clusters = [[] for _ in range(num_clusters)], filled in index order
AssignClusters(points, centroids, num_clusters) ==
    [k \in 1..num_clusters |->
        SelectSeq(Indices(Len(points)),
                  LAMBDA i : NearestCentroid(points[i], centroids) = k)]

MeanOf(points, cluster) ==
    << SumSeq([m \in 1..Len(cluster) |-> points[cluster[m]][1]]),
       SumSeq([m \in 1..Len(cluster) |-> points[cluster[m]][2]]),
       Len(cluster) >>

\* new_centroids: the means of the non-empty clusters, in cluster order
NewCentroids(points, cls) ==
    LET nonEmpty == SelectSeq(cls, LAMBDA c : c # <<>>)
    IN  [m \in 1..Len(nonEmpty) |-> MeanOf(points, nonEmpty[m])]

\* np.allclose(centroids, new_centroids, rtol=1e-5, atol=1e-5): distinct
\* means of at most a few grid points differ by far more than the
\* tolerance, so closeness is equality of the rationals.
AllClose(cs, ns) ==
    \A m \in 1..Len(cs) :
        /\ cs[m][1] * ns[m][3] = ns[m][1] * cs[m][3]
        /\ cs[m][2] * ns[m][3] = ns[m][2] * cs[m][3]

RECURSIVE KMeansLoop(_, _, _, _)
KMeansLoop(points, centroids, num_clusters, pass) ==
    LET cls == AssignClusters(points, centroids, num_clusters)
        new_centroids == NewCentroids(points, cls)
    IN  IF pass >= KMeansMaxIter THEN cls
        ELSE IF Len(new_centroids) = Len(centroids) /\ AllClose(centroids, new_centroids)
             THEN cls
             ELSE KMeansLoop(points, new_centroids, num_clusters, pass + 1)

\* the number of times the body of the for loop of line 94 runs
RECURSIVE KMeansPasses(_, _, _, _)
KMeansPasses(points, centroids, num_clusters, pass) ==
    LET cls == AssignClusters(points, centroids, num_clusters)
        new_centroids == NewCentroids(points, cls)
    IN  IF pass >= KMeansMaxIter THEN pass
        ELSE IF Len(new_centroids) = Len(centroids) /\ AllClose(centroids, new_centroids)
             THEN pass
             ELSE KMeansPasses(points, new_centroids, num_clusters, pass + 1)

\* centroids = points[random.sample(...)] for the sample s
SampledCentroids(st, s) == [m \in 1..Len(s) |-> <<st[s[m]][1], st[s[m]][2], 1>>]

\* random.sample(range(n), k): k distinct indices in any order
Samples(n, k) == {s \in [1..k -> 1..n] : \A a, b \in 1..k : a # b => s[a] # s[b]}

\* the set of cluster assignments _cluster_stops can return for self.stops
_cluster_stops(st, num_clusters) ==
    IF Len(st) <= num_clusters
    THEN {[i \in 1..Len(st) |-> <<i>>]}
    ELSE {KMeansLoop(st, [m \in 1..num_clusters |-> <<st[s[m]][1], st[s[m]][2], 1>>],
                     num_clusters, 1)
          : s \in Samples(Len(st), num_clusters)}

(***************************************************************************)
(* CIACO_Algo.py: pheromone field (fixed point, PUnit units per 1.0)       *)
(***************************************************************************)
\* number of "*= 1.5" writes entry (i, j) receives: the loop body at (a, b)
\* writes both (a, b) and (b, a)
BoostWrites(cls, i, j) ==
    SumSeq([k \in 1..Len(cls) |->
        Cardinality({ab \in Range(cls[k]) \X Range(cls[k]) :
                        /\ ab[1] # ab[2]
                        /\ ab = <<i, j>>})
        + Cardinality({ab \in Range(cls[k]) \X Range(cls[k]) :
                        /\ ab[1] # ab[2]
                        /\ <<ab[2], ab[1]>> = <<i, j>>})])

RECURSIVE TimesOneAndHalf(_, _)
TimesOneAndHalf(x, times) ==
    IF times = 0 THEN x ELSE TimesOneAndHalf((x * 3) \div 2, times - 1)

_initialize_pheromones(st, cls, initial_pheromone) ==
    [i \in 1..Len(st) |-> [j \in 1..Len(st) |->
        IF i = j THEN 0
        ELSE TimesOneAndHalf(initial_pheromone * PUnit, BoostWrites(cls, i, j))]]

\* 1.0 / (distance + 1e-10)
Contribution(distance) ==
    IF distance = 0 THEN HugeContribution ELSE PUnit \div distance

\* deposits on the travelled direction of each leg only
LegWrites_M(st, route, x, y) ==
    Cardinality({i \in 1..(Len(route) - 1) :
                    <<IndexOf(st, route[i]), IndexOf(st, route[i+1])>> = <<x, y>>})

\* number of "+=" writes entry (x, y) receives from one route: each leg
\* (u, v), resolved by stops.index, writes (u, v) and (v, u)
LegWrites(st, route, x, y) ==
    Cardinality({i \in 1..(Len(route) - 1) :
                    <<IndexOf(st, route[i]), IndexOf(st, route[i+1])>> = <<x, y>>})
    + Cardinality({i \in 1..(Len(route) - 1) :
                    <<IndexOf(st, route[i+1]), IndexOf(st, route[i])>> = <<x, y>>})

_update_pheromones(st, pher, ant_routes, ant_distances, evap_pct, elitist_factor) ==
    LET best_ant_idx == ArgMin(ant_distances)
        best_route_it == ant_routes[best_ant_idx]
        best_distance_it == ant_distances[best_ant_idx]
    IN  [x \in 1..Len(st) |-> [y \in 1..Len(st) |->
            (pher[x][y] * (100 - evap_pct)) \div 100
            + SumSeq([a \in 1..Len(ant_routes) |->
                  Contribution(ant_distances[a]) * LegWrites(st, ant_routes[a], x, y)])
            + elitist_factor * Contribution(best_distance_it)
              * LegWrites(st, best_route_it, x, y)]]

(***************************************************************************)
(* CIACO_Algo.py: route construction by one ant                            *)
(***************************************************************************)
Sgn(x) == IF x > 0 THEN 1 ELSE 0

\* x ** a on signs (numpy: 0.0 ** 0 = 1)
PowSgn(x, a) == IF a = 0 THEN 1 ELSE Sgn(x)

\* the routes the while loop can produce from (current, unvisited, route):
\* random.choices draws an index of positive weight and the inner loop
\* redraws until the index is unvisited
RECURSIVE ConstructFrom(_, _, _, _, _, _, _, _)
ConstructFrom(st, pher, vis, alpha, beta, current, unvisited, route) ==
    IF unvisited = {} THEN {route}
    ELSE LET probabilities == normalize_matrix(
                 [j \in 1..Len(st) |->
                     IF j \in unvisited
                     THEN PowSgn(pher[current][j], alpha) * PowSgn(vis[current][j], beta)
                     ELSE 0])
             draws == {j \in unvisited : probabilities[j] > 0}
         IN  UNION {ConstructFrom(st, pher, vis, alpha, beta, j, unvisited \ {j},
                                  Append(route, st[j])) : j \in draws}

_construct_solution(st, pher, vis, alpha, beta, return_to_depot) ==
    {IF return_to_depot THEN Append(r, st[1]) ELSE r :
        r \in ConstructFrom(st, pher, vis, alpha, beta, 1, 2..Len(st), <<st[1]>>)}

(***************************************************************************)
(* State                                                                   *)
(***************************************************************************)
VARIABLES
    \* ---- one CIACO instance (CIACO.__init__) ----
    cfg,               \* the validated constructor parameters
    stops,             \* self.stops
    distance_matrix,   \* self.distance_matrix
    visibility_matrix, \* self.visibility_matrix
    clusters,          \* self.clusters
    pheromone_matrix,  \* self.pheromone_matrix
    best_route,        \* self.best_route
    best_distance,     \* self.best_distance
    \* ---- the optimize_route call in progress / last finished ----
    opt_pc,            \* "idle" | "loop" (inside the main ACO loop)
    opt_arg,           \* the stops argument of the current / last call
    opt_status,        \* "none" | "running" | "returned" | "raised"
    opt_ret,           \* the value returned by the last call
    opt_entry,         \* <<best_route, best_distance>> when the call began
    iteration,         \* rounds finished in the call in progress
    ant_routes,        \* ant_routes of the round in progress
    ant_distances,     \* ant_distances of the round in progress
    calls,             \* optimize_route calls made so far
    \* ---- one DynamicRoutingSystem (DynamicRoutingSystem.__init__) ----
    trucks,            \* self.trucks: the truck records in insertion order
    trucks_added,      \* number of add_truck calls made so far
    deliveries,        \* self.deliveries: delivery id -> record
    ciaco,             \* self.ciaco: what its optimizer carries between calls
    now,               \* datetime.now(), in minutes
    \* ---- the last assign_delivery, update_truck_status or ----
    \* ---- handle_truck_breakdown call made on it           ----
    last_op,           \* "none" | "assign" | "update" | "breakdown"
    last_arg,          \* the id passed to it
    last_ret,          \* "None" | "True" | "False" | "KeyError"
    last_detached,     \* breakdown: failed_delivery_objects after the sort
    last_rebound,      \* breakdown: the detached ids that found a new truck
    \* ---- threads calling assign_delivery on that registry ----
    threads,           \* thread -> [pc, delivery_id, truck_id] of its call
    \* ---- one DeliveryManagementSystem ----
    dms_trucks,        \* self.trucks: the Truck objects in registration order
    dms_ciaco,         \* self.ciaco_optimizer: what it carries between calls
    dms_order,         \* the order passed to the last assign_new_order call
    dms_ret,           \* the truck_id of the Truck it returned, or NoTruck
    dms_evaluated,     \* the lines "Truck ..: current distance, new distance" it printed
    \* ---- the last CIACO(...) construction attempted ----
    ctor_args,         \* its arguments
    ctor_result,       \* "ok" or the message of the ValueError raised
    \* ---- history of the optimize_route call in progress ----
    constructed,       \* every <<route, distance>> built by an ant, in order
    \* ---- calls followed statement by statement ----
    walk,              \* _construct_solution: current, unvisited, route, last draw
    breakdown,         \* handle_truck_breakdown: the detached deliveries still to try
    drive              \* simulate_truck_movement: the truck and its current_point

optVars == << cfg, stops, distance_matrix, visibility_matrix, clusters,
              pheromone_matrix, best_route, best_distance, opt_pc, opt_arg,
              opt_status, opt_ret, opt_entry, iteration, ant_routes,
              ant_distances, calls >>

drsVars == << trucks, trucks_added, deliveries, ciaco, now, last_op, last_arg, last_ret,
              last_detached, last_rebound >>

lastVars == << last_op, last_arg, last_ret, last_detached, last_rebound >>

dmsVars == << dms_trucks, dms_ciaco, dms_order, dms_ret, dms_evaluated >>

ctorVars == << ctor_args, ctor_result >>

stepVars == << walk, breakdown, drive >>

auxVars == << threads, dmsVars, ctorVars, constructed, stepVars >>

vars == << optVars, drsVars, auxVars >>

(***************************************************************************)
(* CIACO.__init__                                                          *)
(***************************************************************************)
CIACO(num_ants, iterations, return_to_depot, num_clusters) ==
    [ num_ants          |-> num_ants,
      iterations        |-> iterations,
      alpha             |-> DefaultAlpha,
      beta              |-> DefaultBeta,
      evaporation_pct   |-> DefaultEvapPct,
      initial_pheromone |-> 1,
      return_to_depot   |-> return_to_depot,
      num_clusters      |-> num_clusters,
      elitist_factor    |-> DefaultElitist ]

\* the fields set after validation, lines 64-71
FreshOptimizer ==
    /\ stops = <<>>
    /\ distance_matrix = <<>>
    /\ visibility_matrix = <<>>
    /\ clusters = <<>>
    /\ pheromone_matrix = <<>>
    /\ best_route = <<>>
    /\ best_distance = Infinity
    /\ opt_pc = "idle"
    /\ opt_arg = <<>>
    /\ opt_status = "none"
    /\ opt_ret = <<>>
    /\ opt_entry = << <<>>, Infinity >>
    /\ iteration = 0
    /\ ant_routes = <<>>
    /\ ant_distances = <<>>
    /\ calls = 0

NoTruck == 0     \* 'assigned_truck': None / best_truck = None
NoWindow == <<>> \* 'time_window': None

\* DynamicRoutingSystem.__init__: empty registries and CIACO(10, 50), of
\* which the fields that outlive a call are kept (lines 68-69); the
\* matrices, stops and clusters are rebuilt by every call that reads them
EmptyRegistry ==
    /\ trucks = <<>>
    /\ trucks_added = 0
    /\ deliveries = <<>>
    /\ ciaco = [best_route |-> <<>>, best_distance |-> Infinity]
    /\ now = 0
    /\ last_op = "none"
    /\ last_arg = 0
    /\ last_ret = "None"
    /\ last_detached = <<>>
    /\ last_rebound = <<>>

\* nothing constructed, no thread inside a call, no DeliveryManagementSystem
\* traffic
ThreadIds == {1, 2}
\* no assign_new_order call made yet
NoOrder == [order_id |-> 0, weight |-> 0, pickup |-> <<>>, dropoff |-> <<>>]

IdleThread == [pc |-> "idle", delivery_id |-> 0, truck_id |-> NoTruck]

\* no route construction, no breakdown, no drive in progress
NoWalk == [pc |-> "idle", current |-> 0, unvisited |-> {}, order |-> <<>>,
           route |-> <<>>, drawn |-> 0]

NoBreakdown == [pc |-> "idle", truck_id |-> NoTruck, queue |-> <<>>, success |-> TRUE]

NoDrive == [pc |-> "idle", truck_id |-> NoTruck, route |-> <<>>, current_point |-> 0,
            owed |-> {}]

AuxIdle ==
    /\ threads = [th \in ThreadIds |-> IdleThread]
    /\ dms_trucks = <<>>
    /\ dms_ciaco = [best_route |-> <<>>, best_distance |-> Infinity]
    /\ dms_order = NoOrder
    /\ dms_ret = NoTruck
    /\ dms_evaluated = <<>>
    /\ ctor_args = <<>>
    /\ ctor_result = None
    /\ constructed = <<>>
    /\ walk = NoWalk
    /\ breakdown = NoBreakdown
    /\ drive = NoDrive

(***************************************************************************)
(* CIACO.optimize_route, in steps: entry, one ant, end of a round          *)
(***************************************************************************)
DistanceMatrixOf(st) ==
    [i \in 1..Len(st) |-> [j \in 1..Len(st) |->
        IF i # j THEN euclidean_distance(st[i], st[j]) ELSE 0]]

\* a guard that lets the empty list through
NoStops_M(st) == FALSE

\* line 148: not stops
NoStops(st) == st = <<>>

\* line 151, with one entry too few
ShortStopList_M(st) == Len(st) <= 1

\* line 151: len(stops) <= 2
ShortStopList(st) == Len(st) <= 2

\* lines 148-172: the guards and the set-up before the main loop
OptimizeRouteEnter(st) ==
    /\ opt_pc = "idle"
    /\ calls < MaxCalls
    /\ calls' = calls + 1
    /\ opt_arg' = st
    /\ opt_entry' = <<best_route, best_distance>>
    /\ IF NoStops(st)
       THEN /\ opt_status' = "raised"
            /\ opt_ret' = <<>>
            /\ UNCHANGED << cfg, stops, distance_matrix, visibility_matrix, clusters,
                            pheromone_matrix, best_route, best_distance, opt_pc,
                            iteration, ant_routes, ant_distances >>
       ELSE IF ShortStopList(st)
       THEN /\ opt_status' = "returned"
            /\ opt_ret' = st
            /\ UNCHANGED << cfg, stops, distance_matrix, visibility_matrix, clusters,
                            pheromone_matrix, best_route, best_distance, opt_pc,
                            iteration, ant_routes, ant_distances >>
       ELSE /\ stops' = st
            /\ distance_matrix' = DistanceMatrixOf(st)
            /\ visibility_matrix' = calculate_visibility_matrix(st)
            /\ clusters' \in _cluster_stops(st, cfg.num_clusters)
            /\ pheromone_matrix' = _initialize_pheromones(st, clusters', cfg.initial_pheromone)
            /\ opt_pc' = "loop"
            /\ opt_status' = "running"
            /\ iteration' = 0
            /\ ant_routes' = <<>>
            /\ ant_distances' = <<>>
            /\ UNCHANGED << cfg, best_route, best_distance, opt_ret >>

\* line 187 with <= in place of <
BestAfter_M(route, distance, br, bd) ==
    IF distance <= bd THEN <<route, distance>> ELSE <<br, bd>>

\* lines 180-189: one ant builds a route; the best-so-far is updated
BestAfter(route, distance, br, bd) ==
    IF distance < bd THEN <<route, distance>> ELSE <<br, bd>>

AntConstructs ==
    /\ opt_pc = "loop"
    /\ Len(ant_routes) < cfg.num_ants
    /\ \E route \in _construct_solution(stops, pheromone_matrix, visibility_matrix,
                                         cfg.alpha, cfg.beta, cfg.return_to_depot) :
          LET distance == total_route_distance(route, cfg.return_to_depot)
              best == BestAfter(route, distance, best_route, best_distance)
          IN  /\ ant_routes' = Append(ant_routes, route)
              /\ ant_distances' = Append(ant_distances, distance)
              /\ best_route' = best[1]
              /\ best_distance' = best[2]
    /\ UNCHANGED << cfg, stops, distance_matrix, visibility_matrix, clusters,
                    pheromone_matrix, opt_pc, opt_arg, opt_status, opt_ret,
                    opt_entry, iteration, calls >>

\* lines 191-194: the round's pheromone update, then the next round or return
RoundEnds ==
    /\ opt_pc = "loop"
    /\ Len(ant_routes) = cfg.num_ants
    /\ pheromone_matrix' = _update_pheromones(stops, pheromone_matrix, ant_routes,
                               ant_distances, cfg.evaporation_pct, cfg.elitist_factor)
    /\ iteration' = iteration + 1
    /\ ant_routes' = <<>>
    /\ ant_distances' = <<>>
    /\ IF iteration + 1 = cfg.iterations
       THEN /\ opt_pc' = "idle"
            /\ opt_status' = "returned"
            /\ opt_ret' = best_route
       ELSE UNCHANGED << opt_pc, opt_status, opt_ret >>
    /\ UNCHANGED << cfg, stops, distance_matrix, visibility_matrix, clusters,
                    best_route, best_distance, opt_arg, opt_entry, calls >>

(***************************************************************************)
(* The optimizer on its own: one instance, a sequence of calls             *)
(***************************************************************************)
OptPoints == {<<0, 0>>, <<3, 0>>, <<0, 4>>}

\* the stop lists handed to optimize_route: the empty list, lists of one and
\* two stops, lists of three distinct stops from each starting point, and a
\* list of three stops with a repeated point
OptStopLists ==
    { <<>>, << <<3, 0>> >>, << <<0, 0>>, <<3, 0>> >>, << <<3, 0>>, <<3, 0>> >> }
    \cup {st \in [1..3 -> OptPoints] : Cardinality(Range(st)) = 3 /\ st[2][1] <= st[3][1]}
    \cup { << <<0, 0>>, <<3, 0>>, <<3, 0>> >> }

\* the instances used on their own: 2 ants, 2 rounds; num_clusters = 3
\* (default) leaves three stops unclustered, num_clusters = 2 runs k-means
OptConfigs ==
    {CIACO(2, 2, rtd, k) : rtd \in BOOLEAN, k \in {2, DefaultNumClusters}}

InitOpt ==
    /\ cfg \in OptConfigs
    /\ FreshOptimizer
    /\ EmptyRegistry
    /\ AuxIdle

NextOpt ==
    \/ \E st \in OptStopLists : OptimizeRouteEnter(st) /\ UNCHANGED << drsVars, auxVars >>
    \/ AntConstructs /\ UNCHANGED << drsVars, auxVars >>
    \/ RoundEnds /\ UNCHANGED << drsVars, auxVars >>

SpecOpt == InitOpt /\ [][NextOpt]_vars

\* the first optimize_route call on a freshly constructed instance, with
\* the candidates of all its ants recorded as they are built
NextFresh ==
    \/ \E st \in OptStopLists :
          /\ calls = 0
          /\ OptimizeRouteEnter(st)
          /\ constructed' = <<>>
          /\ UNCHANGED << drsVars, threads, dmsVars, ctorVars, stepVars >>
    \/ /\ AntConstructs
       /\ constructed' = Append(constructed, << ant_routes'[Len(ant_routes')],
                                                ant_distances'[Len(ant_distances')] >>)
       /\ UNCHANGED << drsVars, threads, dmsVars, ctorVars, stepVars >>
    \/ RoundEnds /\ UNCHANGED << drsVars, auxVars >>

SpecFresh == InitOpt /\ [][NextFresh]_vars

(***************************************************************************)
(* CIACO._cluster_stops on its own                                         *)
(***************************************************************************)
ClusterPoints == OptPoints \cup {<<3, 4>>}

\* lists of three and four stops, repeated points included
ClusterStopLists == [1..3 -> ClusterPoints] \cup [1..4 -> ClusterPoints]

\* lines 154 and 169 on a fresh instance: self.stops is set and clustered
ClusterStops(st) ==
    /\ stops = <<>>
    /\ stops' = st
    /\ clusters' \in _cluster_stops(st, cfg.num_clusters)
    /\ UNCHANGED << cfg, distance_matrix, visibility_matrix, pheromone_matrix,
                    best_route, best_distance, opt_pc, opt_arg, opt_status, opt_ret,
                    opt_entry, iteration, ant_routes, ant_distances, calls >>
    /\ UNCHANGED << drsVars, auxVars >>

NextCluster == \E st \in ClusterStopLists : ClusterStops(st)

SpecCluster == InitOpt /\ [][NextCluster]_vars

(***************************************************************************)
(* CIACO._construct_solution, one draw of random.choices at a time         *)
(***************************************************************************)
\* lines 210-217: the weights handed to random.choices, as signs
Probabilities(st, pher, vis, alpha, beta, current, unvisited) ==
    normalize_matrix(
        [j \in 1..Len(st) |->
            IF j \in unvisited
            THEN PowSgn(pher[current][j], alpha) * PowSgn(vis[current][j], beta)
            ELSE 0])

\* lines 203-206: an ant starts at the depot
AntStarts ==
    /\ opt_pc = "loop"
    /\ walk.pc = "idle"
    /\ Len(ant_routes) < cfg.num_ants
    /\ walk' = [pc |-> "walking", current |-> 1, unvisited |-> 2..Len(stops),
                order |-> <<1>>, route |-> <<stops[1]>>, drawn |-> 0]
    /\ UNCHANGED << optVars, drsVars, threads, dmsVars, ctorVars, constructed,
                    breakdown, drive >>

\* lines 220-226: random.choices returns next_city, an index of positive
\* weight; an unvisited index extends the route, any other is drawn again
Draws(next_city) ==
    /\ walk.pc = "walking"
    /\ walk.unvisited # {}
    /\ Probabilities(stops, pheromone_matrix, visibility_matrix, cfg.alpha, cfg.beta,
                     walk.current, walk.unvisited)[next_city] > 0
    /\ IF next_city \in walk.unvisited
       THEN walk' = [walk EXCEPT !.current = next_city,
                                 !.unvisited = @ \ {next_city},
                                 !.order = Append(@, next_city),
                                 !.route = Append(@, stops[next_city]),
                                 !.drawn = next_city]
       ELSE walk' = [walk EXCEPT !.drawn = next_city]
    /\ UNCHANGED << optVars, drsVars, threads, dmsVars, ctorVars, constructed,
                    breakdown, drive >>

DrawsUnvisited == \E next_city \in walk.unvisited : Draws(next_city)

DrawsVisited == \E next_city \in (1..Len(stops)) \ walk.unvisited : Draws(next_city)

\* lines 229-232 and 182-189: the route is closed, measured and recorded
AntFinishes ==
    /\ opt_pc = "loop"
    /\ walk.pc = "walking"
    /\ walk.unvisited = {}
    /\ LET route == IF cfg.return_to_depot THEN Append(walk.route, stops[1])
                    ELSE walk.route
           distance == total_route_distance(route, cfg.return_to_depot)
           best == BestAfter(route, distance, best_route, best_distance)
       IN  /\ ant_routes' = Append(ant_routes, route)
           /\ ant_distances' = Append(ant_distances, distance)
           /\ best_route' = best[1]
           /\ best_distance' = best[2]
           /\ constructed' = Append(constructed, <<route, distance>>)
    /\ walk' = NoWalk
    /\ UNCHANGED << cfg, stops, distance_matrix, visibility_matrix, clusters,
                    pheromone_matrix, opt_pc, opt_arg, opt_status, opt_ret,
                    opt_entry, iteration, calls >>
    /\ UNCHANGED << drsVars, threads, dmsVars, ctorVars, breakdown, drive >>

\* a call on a fresh instance: the matrices are rebuilt by every call
\* (lines 154-172), so the loop runs the same way in later calls
DrawEnter ==
    \E st \in OptStopLists :
        /\ calls = 0
        /\ OptimizeRouteEnter(st)
        /\ constructed' = <<>>
        /\ UNCHANGED << drsVars, threads, dmsVars, ctorVars, stepVars >>

DrawRoundEnds == RoundEnds /\ UNCHANGED << drsVars, auxVars >>

\* instances with the default evaporation rate and with evaporation_rate = 1,
\* which wipes every entry no ant has just used
DrawConfigs ==
    {[c EXCEPT !.evaporation_pct = e] : c \in OptConfigs, e \in {DefaultEvapPct, 100}}

InitDraw ==
    /\ cfg \in DrawConfigs
    /\ FreshOptimizer
    /\ EmptyRegistry
    /\ AuxIdle

NextDraw ==
    \/ DrawEnter
    \/ AntStarts
    \/ DrawsUnvisited
    \/ DrawsVisited
    \/ AntFinishes
    \/ DrawRoundEnds

\* the interpreter keeps running the call, and random.choices is fair: an
\* index it can return is not avoided forever
SpecDraw ==
    /\ InitDraw
    /\ [][NextDraw]_vars
    /\ WF_vars(AntStarts)
    /\ WF_vars(DrawsUnvisited)
    /\ WF_vars(AntFinishes)
    /\ WF_vars(DrawRoundEnds)

(***************************************************************************)
(* dynamic_routing.py: registry                                            *)
(***************************************************************************)
\* the ids a client uses, handed out in this order
TruckIds == {1, 2}
DeliveryIds == {1, 2}

TruckCapacities == {9, 21}
TruckStarts == {<<0, 0>>}
Weights == {10, 11}
Pickups == {<<3, 0>>}
Dropoffs == {<<3, 4>>}
Corners == Pickups \cup Dropoffs   \* where a truck reports itself
\* a window that closes while the clock runs and one that stays open
TimeWindows == {<<1, MaxTime - 1>>, <<0, MaxTime + 1>>}

RegisteredIds(tr) == {tr[i].id : i \in 1..Len(tr)}

\* self.trucks[truck_id]: position of the record in the registry
TruckPos(tr, truck_id) == CHOOSE i \in 1..Len(tr) : tr[i].id = truck_id

add_truck(truck_id, max_capacity, current_location) ==
    [ id               |-> truck_id,
      max_capacity     |-> max_capacity,
      current_capacity |-> max_capacity,
      current_location |-> current_location,
      current_route    |-> <<>>,
      deliveries       |-> <<>>,
      total_weight     |-> 0 ]

add_delivery(pickup, dropoff, weight, time_window) ==
    [ pickup         |-> pickup,
      dropoff        |-> dropoff,
      weight         |-> weight,
      status         |-> "pending",
      assigned_truck |-> NoTruck,
      time_window    |-> time_window ]

_calculate_distance(point1, point2) == euclidean_distance(point1, point2)

(***************************************************************************)
(* dynamic_routing.py: candidate search                                    *)
(***************************************************************************)
\* a check that only looks at the expiry of the window
_can_meet_time_window_M(truck, delivery, start_time, end_time, current_time) ==
    ~(current_time > end_time)

\* timedelta(hours = d / 80) is 60 * d / 80 minutes, so
\* effective_start + travel <= end_time  iff  60 * d <= 80 * (end - start)
_can_meet_time_window(truck, delivery, start_time, end_time, current_time) ==
    IF current_time > end_time THEN FALSE
    ELSE LET effective_start == Max2(current_time, start_time)
             distance_to_pickup ==
                 _calculate_distance(truck.current_location, delivery.pickup)
         IN  60 * distance_to_pickup <= SpeedKmh * (end_time - effective_start)

\* a capacity check that forgets what the truck already carries
HasCapacity_M(truck, delivery) == truck.max_capacity >= delivery.weight

\* lines 103-106: the two capacity checks
HasCapacity(truck, delivery) ==
    /\ ~(truck.total_weight + delivery.weight > truck.max_capacity)
    /\ truck.current_capacity >= delivery.weight

\* lines 103-112: the checks a truck must pass to be compared by distance
PassesChecks(truck, delivery, current_time) ==
    /\ HasCapacity(truck, delivery)
    /\ delivery.time_window # NoWindow =>
          _can_meet_time_window(truck, delivery, delivery.time_window[1],
                                delivery.time_window[2], current_time)

\* the loop with <= in place of <: the last of several nearest trucks wins
RECURSIVE FindFrom_M(_, _, _, _, _, _)
FindFrom_M(tr, delivery, current_time, i, best_truck, min_distance) ==
    IF i > Len(tr) THEN best_truck
    ELSE LET distance == _calculate_distance(tr[i].current_location, delivery.pickup)
         IN  IF PassesChecks(tr[i], delivery, current_time) /\ distance <= min_distance
             THEN FindFrom_M(tr, delivery, current_time, i + 1, tr[i].id, distance)
             ELSE FindFrom_M(tr, delivery, current_time, i + 1, best_truck, min_distance)

\* the for loop of lines 101-118 from position i on
RECURSIVE FindFrom(_, _, _, _, _, _)
FindFrom(tr, delivery, current_time, i, best_truck, min_distance) ==
    IF i > Len(tr) THEN best_truck
    ELSE LET distance == _calculate_distance(tr[i].current_location, delivery.pickup)
         IN  IF PassesChecks(tr[i], delivery, current_time) /\ distance < min_distance
             THEN FindFrom(tr, delivery, current_time, i + 1, tr[i].id, distance)
             ELSE FindFrom(tr, delivery, current_time, i + 1, best_truck, min_distance)

\* a search that falls back on the first registered truck
find_suitable_truck_M(tr, delivery, current_time) ==
    FindFrom(tr, delivery, current_time, 1,
             IF tr = <<>> THEN NoTruck ELSE tr[1].id, Infinity)

find_suitable_truck(tr, delivery, current_time) ==
    FindFrom(tr, delivery, current_time, 1, NoTruck, Infinity)

(***************************************************************************)
(* dynamic_routing.py: the route of a truck, through self.ciaco            *)
(***************************************************************************)
DrsConfig == CIACO(10, 50, TRUE, DefaultNumClusters)

\* CIACO.optimize_route run to completion on the instance state c.  With
\* evaporation_rate 0.1 no off-diagonal pheromone entry ever reaches 0 (the
\* cluster boost and the deposits only enlarge positive entries), so in
\* every round every ant can build each route that the unboosted initial
\* matrix allows.  The best-so-far after the run is the carried-in best
\* unless some candidate was strictly shorter, and then it is the first
\* shortest candidate, which can be any candidate r (all ants may draw r).
CiacoOptimizeRoute(c, st) ==
    IF ShortStopList(st) THEN {[ret |-> st, ciaco |-> c]}
    ELSE LET candidates ==
                 _construct_solution(st,
                     _initialize_pheromones(st, <<>>, DrsConfig.initial_pheromone),
                     calculate_visibility_matrix(st),
                     DrsConfig.alpha, DrsConfig.beta, DrsConfig.return_to_depot)
         IN  {LET best == BestAfter(r, total_route_distance(r, DrsConfig.return_to_depot),
                                    c.best_route, c.best_distance)
              IN  [ret |-> best[1],
                   ciaco |-> [best_route |-> best[1], best_distance |-> best[2]]]
              : r \in candidates}

\* lines 156-167: the stop list built for truck, whose deliveries list
\* already holds new_delivery_id when this is called
RouteStops(truck, dl, new_delivery_id) ==
    LET inProgress == SelectSeq(truck.deliveries, LAMBDA d : dl[d].status = "in_progress")
    IN  <<truck.current_location>>
        \o [m \in 1..Len(inProgress) |-> dl[inProgress[m]].dropoff]
        \o <<dl[new_delivery_id].pickup, dl[new_delivery_id].dropoff>>

\* DynamicRoutingSystem.optimize_route: the possible (route, optimizer) pairs
optimize_route(c, truck, dl, new_delivery_id) ==
    CiacoOptimizeRoute(c, RouteStops(truck, dl, new_delivery_id))

(***************************************************************************)
(* dynamic_routing.py: binding a delivery to a truck                       *)
(***************************************************************************)
\* a binding that does not record the owner
BindDelivery_M(dl, delivery_id, truck_id) ==
    [dl EXCEPT ![delivery_id].status = "in_progress"]

\* lines 266-270 / 327-331: the writes on the delivery and on the truck
BindDelivery(dl, delivery_id, truck_id) ==
    [dl EXCEPT ![delivery_id].status = "in_progress",
               ![delivery_id].assigned_truck = truck_id]

\* a binding that leaves the remaining capacity as it was
BindTruck_M(truck, delivery_id, weight) ==
    [truck EXCEPT !.deliveries = Append(@, delivery_id),
                  !.total_weight = @ + weight]

BindTruck(truck, delivery_id, weight) ==
    [truck EXCEPT !.deliveries = Append(@, delivery_id),
                  !.total_weight = @ + weight,
                  !.current_capacity = @ - weight]

\* the registry states after binding delivery_id to truck_id and storing
\* the recomputed route: records [trucks, deliveries, ciaco]
Bound(tr, dl, c, delivery_id, truck_id) ==
    LET pos == TruckPos(tr, truck_id)
        dl2 == BindDelivery(dl, delivery_id, truck_id)
        truck2 == BindTruck(tr[pos], delivery_id, dl[delivery_id].weight)
    IN  {[trucks |-> [tr EXCEPT ![pos] = [truck2 EXCEPT !.current_route = o.ret]],
          deliveries |-> dl2,
          ciaco |-> o.ciaco]
         : o \in optimize_route(c, truck2, dl2, delivery_id)}

(***************************************************************************)
(* dynamic_routing.py: update_truck_status                                 *)
(***************************************************************************)
\* distance < 0.01 on integer coordinates: the two points coincide
Reached(new_location, dropoff) == _calculate_distance(new_location, dropoff) = 0

\* The for loop of lines 181-189 over truck['deliveries'], which the body
\* shortens while the loop runs: the list iterator holds a position i and
\* stops when i passes the current end of the list.  st is
\* [list, dl, current_capacity, total_weight].
RECURSIVE StatusLoop(_, _, _)
StatusLoop(st, new_location, i) ==
    IF i > Len(st.list) THEN st
    ELSE LET delivery_id == st.list[i]
             delivery == st.dl[delivery_id]
         IN  IF delivery.status = "in_progress" /\ Reached(new_location, delivery.dropoff)
             THEN StatusLoop(
                      [list |-> RemoveFirst(st.list, delivery_id),
                       dl |-> [st.dl EXCEPT ![delivery_id].status = "completed"],
                       current_capacity |-> st.current_capacity + delivery.weight,
                       total_weight |-> st.total_weight - delivery.weight],
                      new_location, i + 1)
             ELSE StatusLoop(st, new_location, i + 1)

(***************************************************************************)
(* dynamic_routing.py: handle_truck_breakdown                              *)
(***************************************************************************)
\* a sort that puts a delivery before the earlier ones of its weight
RECURSIVE InsertByWeight_M(_, _, _)
InsertByWeight_M(sorted, d, dl) ==
    IF sorted = <<>> THEN <<d>>
    ELSE IF dl[Head(sorted)].weight > dl[d].weight
         THEN <<Head(sorted)>> \o InsertByWeight_M(Tail(sorted), d, dl)
         ELSE <<d>> \o sorted

\* list.sort(key = weight, reverse = True): stable, heavier first
RECURSIVE InsertByWeight(_, _, _)
InsertByWeight(sorted, d, dl) ==
    IF sorted = <<>> THEN <<d>>
    ELSE IF dl[Head(sorted)].weight >= dl[d].weight
         THEN <<Head(sorted)>> \o InsertByWeight(Tail(sorted), d, dl)
         ELSE <<d>> \o sorted

RECURSIVE SortByWeightDesc(_, _)
SortByWeightDesc(list, dl) ==
    IF list = <<>> THEN <<>>
    ELSE InsertByWeight(SortByWeightDesc(SubSeq(list, 1, Len(list) - 1), dl),
                        list[Len(list)], dl)

\* a breakdown that leaves the deliveries of the broken truck as they are
ResetAll_M(dl, list) == dl

\* lines 287-296: every delivery of the broken truck back to pending
RECURSIVE ResetAll(_, _)
ResetAll(dl, list) ==
    IF list = <<>> THEN dl
    ELSE ResetAll([dl EXCEPT ![Head(list)].status = "pending",
                             ![Head(list)].assigned_truck = NoTruck],
                  Tail(list))

\* the search with the strict capacity check of find_suitable_truck
RECURSIVE FindLenientFrom_M(_, _, _, _, _)
FindLenientFrom_M(tr, delivery, i, new_truck_id, min_distance) ==
    IF i > Len(tr) THEN new_truck_id
    ELSE LET distance == _calculate_distance(tr[i].current_location, delivery.pickup)
         IN  IF /\ tr[i].current_capacity >= delivery.weight
                /\ distance < min_distance
             THEN FindLenientFrom_M(tr, delivery, i + 1, tr[i].id, distance)
             ELSE FindLenientFrom_M(tr, delivery, i + 1, new_truck_id, min_distance)

\* lines 310-321: nearest truck whose remaining capacity covers 90% of the
\* weight, from position i on
RECURSIVE FindLenientFrom(_, _, _, _, _)
FindLenientFrom(tr, delivery, i, new_truck_id, min_distance) ==
    IF i > Len(tr) THEN new_truck_id
    ELSE LET distance == _calculate_distance(tr[i].current_location, delivery.pickup)
         IN  IF /\ OverloadDen * tr[i].current_capacity >= OverloadNum * delivery.weight
                /\ distance < min_distance
             THEN FindLenientFrom(tr, delivery, i + 1, tr[i].id, distance)
             ELSE FindLenientFrom(tr, delivery, i + 1, new_truck_id, min_distance)

\* a loop that gives up at the first delivery no truck can take
RECURSIVE ReassignLoop_M(_, _)
ReassignLoop_M(st, queue) ==
    IF queue = <<>> THEN {st}
    ELSE LET delivery_id == Head(queue)
             new_truck_id == FindLenientFrom(st.trucks, st.deliveries[delivery_id],
                                             1, NoTruck, Infinity)
         IN  IF new_truck_id # NoTruck
             THEN UNION {ReassignLoop_M([trucks |-> b.trucks,
                                         deliveries |-> b.deliveries,
                                         ciaco |-> b.ciaco,
                                         success |-> st.success,
                                         rebound |-> Append(st.rebound, delivery_id)],
                                        Tail(queue))
                         : b \in Bound(st.trucks, st.deliveries, st.ciaco,
                                       delivery_id, new_truck_id)}
             ELSE {[st EXCEPT !.success = FALSE]}

\* lines 304-339: the loop over the sorted detached deliveries; st is
\* [trucks, deliveries, ciaco, success, rebound]; yields the possible finals
RECURSIVE ReassignLoop(_, _)
ReassignLoop(st, queue) ==
    IF queue = <<>> THEN {st}
    ELSE LET delivery_id == Head(queue)
             new_truck_id == FindLenientFrom(st.trucks, st.deliveries[delivery_id],
                                             1, NoTruck, Infinity)
         IN  IF new_truck_id # NoTruck
             THEN UNION {ReassignLoop([trucks |-> b.trucks,
                                       deliveries |-> b.deliveries,
                                       ciaco |-> b.ciaco,
                                       success |-> st.success,
                                       rebound |-> Append(st.rebound, delivery_id)],
                                      Tail(queue))
                         : b \in Bound(st.trucks, st.deliveries, st.ciaco,
                                       delivery_id, new_truck_id)}
             ELSE ReassignLoop([st EXCEPT !.success = FALSE], Tail(queue))

RemoveTruck(tr, truck_id) == SelectSeq(tr, LAMBDA t : t.id # truck_id)

(***************************************************************************)
(* The operations of the DynamicRoutingSystem                              *)
(***************************************************************************)
PyBool(b) == IF b THEN "True" ELSE "False"

Called(op, arg, ret) ==
    /\ last_op' = op
    /\ last_arg' = arg
    /\ last_ret' = ret

\* the caller passes a new id: ids are handed out in order, never reused
AddTruck(truck_id, max_capacity, current_location) ==
    /\ truck_id = trucks_added + 1
    /\ trucks_added' = truck_id
    /\ trucks' = Append(trucks, add_truck(truck_id, max_capacity, current_location))
    /\ UNCHANGED << deliveries, ciaco, now, lastVars >>

AddDelivery(delivery_id, pickup, dropoff, weight, time_window) ==
    /\ delivery_id = Len(deliveries) + 1
    /\ deliveries' = Append(deliveries, add_delivery(pickup, dropoff, weight, time_window))
    /\ UNCHANGED << trucks, trucks_added, ciaco, now, lastVars >>

\* a guard that only looks for the id
NotAssignable_M(dl, delivery_id) == delivery_id \notin DOMAIN dl

\* lines 252-257: the id is absent, or the delivery is not pending
NotAssignable(dl, delivery_id) ==
    \/ delivery_id \notin DOMAIN dl
    \/ dl[delivery_id].status # "pending"

AssignDelivery(delivery_id) ==
    /\ UNCHANGED << trucks_added, now >>
    /\ last_detached' = <<>>
    /\ last_rebound' = <<>>
    /\ IF NotAssignable(deliveries, delivery_id)
       THEN /\ Called("assign", delivery_id, "False")
            /\ UNCHANGED << trucks, deliveries, ciaco >>
       ELSE LET truck_id == find_suitable_truck(trucks, deliveries[delivery_id], now)
            IN  IF truck_id = NoTruck
                THEN /\ Called("assign", delivery_id, "False")
                     /\ UNCHANGED << trucks, deliveries, ciaco >>
                ELSE /\ \E b \in Bound(trucks, deliveries, ciaco, delivery_id, truck_id) :
                            /\ trucks' = b.trucks
                            /\ deliveries' = b.deliveries
                            /\ ciaco' = b.ciaco
                     /\ Called("assign", delivery_id, "True")

UpdateTruckStatus(truck_id, new_location) ==
    /\ UNCHANGED << trucks_added, ciaco, now >>
    /\ last_detached' = <<>>
    /\ last_rebound' = <<>>
    /\ IF truck_id \notin RegisteredIds(trucks)
       THEN /\ Called("update", truck_id, "KeyError")
            /\ UNCHANGED << trucks, deliveries >>
       ELSE LET pos == TruckPos(trucks, truck_id)
                truck == trucks[pos]
                final == StatusLoop([list |-> truck.deliveries,
                                     dl |-> deliveries,
                                     current_capacity |-> truck.current_capacity,
                                     total_weight |-> truck.total_weight],
                                    new_location, 1)
            IN  /\ trucks' = [trucks EXCEPT ![pos] =
                                 [truck EXCEPT !.current_location = new_location,
                                               !.deliveries = final.list,
                                               !.current_capacity = final.current_capacity,
                                               !.total_weight = final.total_weight]]
                /\ deliveries' = final.dl
                /\ Called("update", truck_id, "None")

HandleTruckBreakdown(truck_id) ==
    /\ UNCHANGED << trucks_added, now >>
    /\ IF truck_id \notin RegisteredIds(trucks)
       THEN /\ Called("breakdown", truck_id, "False")
            /\ last_detached' = <<>>
            /\ last_rebound' = <<>>
            /\ UNCHANGED << trucks, deliveries, ciaco >>
       ELSE LET failed_deliveries == trucks[TruckPos(trucks, truck_id)].deliveries
                queue == SortByWeightDesc(failed_deliveries, deliveries)
                start == [trucks |-> RemoveTruck(trucks, truck_id),
                          deliveries |-> ResetAll(deliveries, failed_deliveries),
                          ciaco |-> ciaco,
                          success |-> TRUE,
                          rebound |-> <<>>]
            IN  \E final \in ReassignLoop(start, queue) :
                    /\ trucks' = final.trucks
                    /\ deliveries' = final.deliveries
                    /\ ciaco' = final.ciaco
                    /\ last_detached' = queue
                    /\ last_rebound' = final.rebound
                    /\ Called("breakdown", truck_id, PyBool(final.success))

\* the clock advances between calls
Tick ==
    /\ now < MaxTime
    /\ now' = now + 1
    /\ UNCHANGED << trucks, trucks_added, deliveries, ciaco, lastVars >>

Init ==
    /\ cfg = DrsConfig
    /\ FreshOptimizer
    /\ EmptyRegistry
    /\ AuxIdle

\* the calls a client makes, with trucks of capacities caps and deliveries
\* of weights ws and time windows tws
Calls(caps, ws, tws) ==
    \/ \E t \in TruckIds, c \in caps, l \in TruckStarts :
          AddTruck(t, c, l) /\ UNCHANGED << optVars, auxVars >>
    \/ \E d \in DeliveryIds, p \in Pickups, q \in Dropoffs, w \in ws, tw \in tws :
          AddDelivery(d, p, q, w, tw) /\ UNCHANGED << optVars, auxVars >>
    \/ \E d \in DeliveryIds : AssignDelivery(d) /\ UNCHANGED << optVars, auxVars >>
    \/ \E t \in TruckIds, l \in Corners : UpdateTruckStatus(t, l) /\ UNCHANGED << optVars, auxVars >>
    \/ \E t \in TruckIds : HandleTruckBreakdown(t) /\ UNCHANGED << optVars, auxVars >>

\* deliveries without time windows: the clock is never read
Next == Calls(TruckCapacities, Weights, {NoWindow})

Spec == Init /\ [][Next]_vars

\* deliveries with time windows, and a running clock
NextTime ==
    \/ Calls({9}, {4}, TimeWindows)
    \/ Tick /\ UNCHANGED << optVars, auxVars >>

SpecTime == Init /\ [][NextTime]_vars

(***************************************************************************)
(* test_scenarios.py, scenario 4: the caller deletes a truck record itself *)
(***************************************************************************)
\* lines 158-160: if "T1" in trucks: ... del self.routing_system.trucks["T1"]
DeleteTruck(truck_id) ==
    /\ truck_id \in RegisteredIds(trucks)
    /\ trucks' = RemoveTruck(trucks, truck_id)
    /\ Called("del", truck_id, "None")
    /\ last_detached' = trucks[TruckPos(trucks, truck_id)].deliveries
    /\ last_rebound' = <<>>
    /\ UNCHANGED << trucks_added, deliveries, ciaco, now >>

NextScenario ==
    \/ Calls({21}, {10}, {NoWindow})
    \/ \E t \in TruckIds : DeleteTruck(t) /\ UNCHANGED << optVars, auxVars >>

SpecScenario == Init /\ [][NextScenario]_vars

(***************************************************************************)
(* assign_delivery called from threads: the statements of one call run in  *)
(* order, and another thread's call may run between two of them            *)
(***************************************************************************)
\* lines 252-262: the guards and the search
AssignSearch(th, delivery_id) ==
    /\ threads[th].pc = "idle"
    /\ UNCHANGED << trucks, trucks_added, deliveries, ciaco, now >>
    /\ IF NotAssignable(deliveries, delivery_id)
       THEN /\ Called("assign", delivery_id, "False")
            /\ last_detached' = <<>> /\ last_rebound' = <<>>
            /\ UNCHANGED threads
       ELSE LET truck_id == find_suitable_truck(trucks, deliveries[delivery_id], now)
            IN  IF truck_id = NoTruck
                THEN /\ Called("assign", delivery_id, "False")
                     /\ last_detached' = <<>> /\ last_rebound' = <<>>
                     /\ UNCHANGED threads
                ELSE /\ threads' = [threads EXCEPT ![th] =
                                       [pc |-> "found", delivery_id |-> delivery_id,
                                        truck_id |-> truck_id]]
                     /\ UNCHANGED lastVars

\* line 265: truck = self.trucks[truck_id]
AssignLookup(th) ==
    /\ threads[th].pc = "found"
    /\ UNCHANGED << trucks, trucks_added, deliveries, ciaco, now >>
    /\ IF threads[th].truck_id \in RegisteredIds(trucks)
       THEN /\ threads' = [threads EXCEPT ![th].pc = "holding"]
            /\ UNCHANGED lastVars
       ELSE /\ threads' = [threads EXCEPT ![th] = IdleThread]
            /\ Called("assign", threads[th].delivery_id, "KeyError")
            /\ last_detached' = <<>> /\ last_rebound' = <<>>

\* lines 266-275: the writes through the references held, then the route.
\* When the truck has left the registry meanwhile, the delivery record is
\* still written, the truck record written is no longer in self.trucks, and
\* optimize_route raises KeyError at line 153.
AssignWrite(th) ==
    /\ threads[th].pc = "holding"
    /\ threads' = [threads EXCEPT ![th] = IdleThread]
    /\ last_detached' = <<>> /\ last_rebound' = <<>>
    /\ UNCHANGED << trucks_added, now >>
    /\ LET delivery_id == threads[th].delivery_id
           truck_id == threads[th].truck_id
       IN  IF truck_id \in RegisteredIds(trucks)
           THEN /\ \E b \in Bound(trucks, deliveries, ciaco, delivery_id, truck_id) :
                       /\ trucks' = b.trucks
                       /\ deliveries' = b.deliveries
                       /\ ciaco' = b.ciaco
                /\ Called("assign", delivery_id, "True")
           ELSE /\ deliveries' = BindDelivery(deliveries, delivery_id, truck_id)
                /\ UNCHANGED << trucks, ciaco >>
                /\ Called("assign", delivery_id, "KeyError")

\* two client threads on one registry; breakdowns run without interruption
NextThreads ==
    \/ \E t \in TruckIds, l \in TruckStarts :
          AddTruck(t, 10, l) /\ UNCHANGED << optVars, auxVars >>
    \/ \E d \in DeliveryIds, p \in Pickups, q \in Dropoffs :
          AddDelivery(d, p, q, 10, NoWindow) /\ UNCHANGED << optVars, auxVars >>
    \/ \E th \in ThreadIds, d \in DeliveryIds :
          AssignSearch(th, d) /\ UNCHANGED << optVars, dmsVars, ctorVars, constructed, stepVars >>
    \/ \E th \in ThreadIds :
          AssignLookup(th) /\ UNCHANGED << optVars, dmsVars, ctorVars, constructed, stepVars >>
    \/ \E th \in ThreadIds :
          AssignWrite(th) /\ UNCHANGED << optVars, dmsVars, ctorVars, constructed, stepVars >>
    \/ \E t \in TruckIds : HandleTruckBreakdown(t) /\ UNCHANGED << optVars, auxVars >>

SpecThreads == Init /\ [][NextThreads]_vars

(***************************************************************************)
(* Truck.py, Order.py, deliveryManagementSystem.py                         *)
(***************************************************************************)
Truck(truck_id, current_location, max_capacity) ==
    [ truck_id           |-> truck_id,
      current_location   |-> current_location,
      max_capacity       |-> max_capacity,
      assigned_orders    |-> <<>>,
      route              |-> <<current_location>>,
      remaining_capacity |-> max_capacity ]

Order(order_id, weight, pickup, dropoff) ==
    [ order_id |-> order_id, weight |-> weight, pickup |-> pickup, dropoff |-> dropoff ]

update_capacity(truck) ==
    LET used_capacity ==
            SumSeq([m \in 1..Len(truck.assigned_orders) |-> truck.assigned_orders[m].weight])
    IN  [truck EXCEPT !.remaining_capacity = truck.max_capacity - used_capacity]

add_order(truck, order) ==
    update_capacity([truck EXCEPT !.assigned_orders = Append(@, order)])

\* list(dict.fromkeys(new_stops)): the first occurrence of each stop, in order
RECURSIVE Dedup(_)
Dedup(s) ==
    IF s = <<>> THEN <<>>
    ELSE LET r == Dedup(SubSeq(s, 1, Len(s) - 1))
         IN  IF s[Len(s)] \in Range(r) THEN r ELSE Append(r, s[Len(s)])

\* line 41, lines 38-42: the positions of the trucks with enough capacity
CandidateTrucks(tr, order) ==
    SelectSeq(Indices(Len(tr)), LAMBDA i : tr[i].remaining_capacity >= order.weight)

\* a test that forgets the idle truck
Feasible_M(new_distance, current_distance) ==
    SlackDen * new_distance <= SlackNum * current_distance

\* line 69: new_distance <= current_distance * 1.2 or current_distance == 0
Feasible(new_distance, current_distance) ==
    \/ SlackDen * new_distance <= SlackNum * current_distance
    \/ current_distance = 0

\* lines 49-79: the loop over candidate_trucks from its k-th entry on; c is
\* the state of self.ciaco_optimizer, evaluated the lines printed so far.
\* Yields the possible [trucks, ciaco, ret, evaluated] at the return.
RECURSIVE EvaluateFrom(_, _, _, _, _, _)
EvaluateFrom(tr, c, order, candidate_trucks, k, evaluated) ==
    IF k > Len(candidate_trucks)
    THEN {[trucks |-> tr, ciaco |-> c, ret |-> NoTruck, evaluated |-> evaluated]}
    ELSE LET pos == candidate_trucks[k]
             truck == tr[pos]
             new_stops == Dedup(truck.route \o <<order.pickup, order.dropoff>>)
             current_distance == total_route_distance(truck.route, TRUE)
         IN  UNION {
               LET optimized_route == o.ret
                   new_distance == total_route_distance(optimized_route, TRUE)
                   printed == Append(evaluated,
                                     [truck_id |-> truck.truck_id,
                                      current_distance |-> current_distance,
                                      new_distance |-> new_distance])
               IN  IF Feasible(new_distance, current_distance)
                   THEN {[trucks |-> [tr EXCEPT ![pos] =
                                        [add_order(truck, order) EXCEPT !.route = optimized_route]],
                          ciaco |-> o.ciaco,
                          ret |-> truck.truck_id,
                          evaluated |-> printed]}
                   ELSE EvaluateFrom(tr, o.ciaco, order, candidate_trucks, k + 1, printed)
               : o \in CiacoOptimizeRoute(c, new_stops)}

DmsAddTruck(truck) ==
    /\ truck.truck_id = Len(dms_trucks) + 1
    /\ dms_trucks' = Append(dms_trucks, truck)
    /\ UNCHANGED << dms_ciaco, dms_order, dms_ret, dms_evaluated >>

AssignNewOrder(order) ==
    \E final \in EvaluateFrom(dms_trucks, dms_ciaco, order,
                              CandidateTrucks(dms_trucks, order), 1, <<>>) :
        /\ dms_trucks' = final.trucks
        /\ dms_ciaco' = final.ciaco
        /\ dms_order' = order
        /\ dms_ret' = final.ret
        /\ dms_evaluated' = final.evaluated

\* the orders are numbered as they are accepted
NextOrderId == 1 + SumSeq([i \in 1..Len(dms_trucks) |-> Len(dms_trucks[i].assigned_orders)])

DmsTruckIds == {1, 2}
DmsCapacities == {2, 3}
DmsWeights == {1, 2}
DmsDropoffs == {<<3, 0>>, <<3, 4>>}

NextDms ==
    \/ \E t \in DmsTruckIds, l \in TruckStarts, c \in DmsCapacities :
          DmsAddTruck(Truck(t, l, c))
          /\ UNCHANGED << optVars, drsVars, threads, ctorVars, constructed, stepVars >>
    \/ \E w \in DmsWeights, p \in Pickups, q \in DmsDropoffs :
          AssignNewOrder(Order(NextOrderId, w, p, q))
          /\ UNCHANGED << optVars, drsVars, threads, ctorVars, constructed, stepVars >>

SpecDms == Init /\ [][NextDms]_vars

(***************************************************************************)
(* CIACO.__init__ with arbitrary arguments                                 *)
(***************************************************************************)
\* lines 37-52 with the first two checks in the other order
Validate_M(a) ==
    IF a.iterations <= 0 THEN "Number of iterations must be positive"
    ELSE IF a.num_ants <= 0 THEN "Number of ants must be positive"
    ELSE IF a.alpha < 0 THEN "Alpha must be non-negative"
    ELSE IF a.beta < 0 THEN "Beta must be non-negative"
    ELSE IF ~(0 <= a.evaporation_pct /\ a.evaporation_pct <= 100)
         THEN "Evaporation rate must be between 0 and 1"
    ELSE IF a.initial_pheromone <= 0 THEN "Initial pheromone must be positive"
    ELSE IF a.num_clusters <= 0 THEN "Number of clusters must be positive"
    ELSE IF a.elitist_factor < 1 THEN "Elitist factor must be >= 1"
    ELSE "ok"

\* lines 37-52: the ValueError raised, or "ok"; evaporation_rate in percent
Validate(a) ==
    IF a.num_ants <= 0 THEN "Number of ants must be positive"
    ELSE IF a.iterations <= 0 THEN "Number of iterations must be positive"
    ELSE IF a.alpha < 0 THEN "Alpha must be non-negative"
    ELSE IF a.beta < 0 THEN "Beta must be non-negative"
    ELSE IF ~(0 <= a.evaporation_pct /\ a.evaporation_pct <= 100)
         THEN "Evaporation rate must be between 0 and 1"
    ELSE IF a.initial_pheromone <= 0 THEN "Initial pheromone must be positive"
    ELSE IF a.num_clusters <= 0 THEN "Number of clusters must be positive"
    ELSE IF a.elitist_factor < 1 THEN "Elitist factor must be >= 1"
    ELSE "ok"

\* no instance: the constructor raised
NoInstance == <<>>

\* CIACO(a): lines 37-71; cfg holds the instance the expression produced
Construct(a) ==
    /\ ctor_args' = a
    /\ ctor_result' = Validate(a)
    /\ cfg' = IF Validate(a) = "ok" THEN a ELSE NoInstance
    /\ UNCHANGED << stops, distance_matrix, visibility_matrix, clusters,
                    pheromone_matrix, best_route, best_distance, opt_pc, opt_arg,
                    opt_status, opt_ret, opt_entry, iteration, ant_routes,
                    ant_distances, calls >>

\* argument values on both sides of every constraint
CtorArgs ==
    [ num_ants          : {0, 1},
      iterations        : {0, 1},
      alpha             : {-1, 0},
      beta              : {-1, 0},
      evaporation_pct   : {-1, 0, 100, 101},
      initial_pheromone : {0, 1},
      return_to_depot   : {TRUE},
      num_clusters      : {0, 1},
      elitist_factor    : {0, 1} ]

InitCtor ==
    /\ cfg = NoInstance
    /\ FreshOptimizer
    /\ EmptyRegistry
    /\ AuxIdle

NextCtor ==
    \E a \in CtorArgs :
        Construct(a) /\ UNCHANGED << drsVars, threads, dmsVars, constructed, stepVars >>

SpecCtor == InitCtor /\ [][NextCtor]_vars

(***************************************************************************)
(* handle_truck_breakdown, one loop iteration at a time                    *)
(***************************************************************************)
\* lines 277-305: the registry check, the reset of the broken truck's
\* deliveries, the removal of the truck and the sort
BreakdownBegins(truck_id) ==
    /\ breakdown.pc = "idle"
    /\ UNCHANGED << trucks_added, now, ciaco >>
    /\ last_rebound' = <<>>
    /\ IF truck_id \notin RegisteredIds(trucks)
       THEN /\ Called("breakdown", truck_id, "False")
            /\ last_detached' = <<>>
            /\ UNCHANGED << trucks, deliveries, breakdown >>
       ELSE LET failed_deliveries == trucks[TruckPos(trucks, truck_id)].deliveries
                queue == SortByWeightDesc(failed_deliveries, deliveries)
            IN  /\ trucks' = RemoveTruck(trucks, truck_id)
                /\ deliveries' = ResetAll(deliveries, failed_deliveries)
                /\ breakdown' = [pc |-> "loop", truck_id |-> truck_id,
                                 queue |-> queue, success |-> TRUE]
                /\ last_detached' = queue
                /\ Called("breakdown", truck_id, "None")

\* lines 307-337: one iteration of the loop over the sorted deliveries
BreakdownTries ==
    /\ breakdown.pc = "loop"
    /\ breakdown.queue # <<>>
    /\ UNCHANGED << trucks_added, now, last_op, last_arg, last_ret, last_detached >>
    /\ LET delivery_id == Head(breakdown.queue)
           new_truck_id == FindLenientFrom(trucks, deliveries[delivery_id],
                                           1, NoTruck, Infinity)
       IN  IF new_truck_id # NoTruck
           THEN /\ \E b \in Bound(trucks, deliveries, ciaco, delivery_id, new_truck_id) :
                       /\ trucks' = b.trucks
                       /\ deliveries' = b.deliveries
                       /\ ciaco' = b.ciaco
                /\ last_rebound' = Append(last_rebound, delivery_id)
                /\ breakdown' = [breakdown EXCEPT !.queue = Tail(@)]
           ELSE /\ UNCHANGED << trucks, deliveries, ciaco, last_rebound >>
                /\ breakdown' = [breakdown EXCEPT !.queue = Tail(@), !.success = FALSE]

\* line 339: return success
BreakdownReturns ==
    /\ breakdown.pc = "loop"
    /\ breakdown.queue = <<>>
    /\ last_ret' = PyBool(breakdown.success)
    /\ breakdown' = NoBreakdown
    /\ UNCHANGED << trucks, trucks_added, deliveries, ciaco, now, last_op, last_arg,
                    last_detached, last_rebound >>

RecoveryTruckIds == {1, 2, 3}
RecoveryStarts == {<<0, 0>>, <<3, 0>>}

\* a fleet of up to three trucks parked at two places; the client makes its
\* calls one after the other
NextRecovery ==
    \/ \E t \in RecoveryTruckIds, c \in TruckCapacities, l \in RecoveryStarts :
          /\ breakdown.pc = "idle"
          /\ AddTruck(t, c, l)
          /\ UNCHANGED << optVars, auxVars >>
    \/ \E d \in DeliveryIds, p \in Pickups, q \in Dropoffs, w \in Weights :
          /\ breakdown.pc = "idle"
          /\ AddDelivery(d, p, q, w, NoWindow)
          /\ UNCHANGED << optVars, auxVars >>
    \/ \E d \in DeliveryIds :
          /\ breakdown.pc = "idle"
          /\ AssignDelivery(d)
          /\ UNCHANGED << optVars, auxVars >>
    \/ \E t \in RecoveryTruckIds :
          /\ BreakdownBegins(t)
          /\ UNCHANGED << optVars, threads, dmsVars, ctorVars, constructed, walk, drive >>
    \/ /\ BreakdownTries
       /\ UNCHANGED << optVars, threads, dmsVars, ctorVars, constructed, walk, drive >>
    \/ /\ BreakdownReturns
       /\ UNCHANGED << optVars, threads, dmsVars, ctorVars, constructed, walk, drive >>

SpecRecovery == Init /\ [][NextRecovery]_vars

(***************************************************************************)
(* test_dynamic_routing.py: simulate_truck_movement                        *)
(***************************************************************************)
\* lines 76-82: the truck's stored route is taken; an empty route ends the
\* simulation at once.  current_point counts the route points already
\* reported: the simulation takes the first point as the place where the
\* truck is (reported = 1); a driver who reports every point starts with
\* reported = 0.
DriveBegins(truck_id, reported) ==
    /\ drive.pc = "idle"
    /\ truck_id \in RegisteredIds(trucks)
    /\ LET truck == trucks[TruckPos(trucks, truck_id)]
       IN  /\ truck.current_route # <<>>
           /\ drive' = [pc |-> "driving", truck_id |-> truck_id,
                        route |-> truck.current_route,
                        current_point |-> reported,
                        owed |-> {d \in Range(truck.deliveries) :
                                     deliveries[d].status = "in_progress"}]
    /\ UNCHANGED << optVars, drsVars, threads, dmsVars, ctorVars, constructed,
                    walk, breakdown >>

\* lines 84-98: the next point of the route is reported through
\* update_truck_status (duration_minutes = 30 exceeds every route length
\* that occurs here)
DriveStep ==
    /\ drive.pc = "driving"
    /\ drive.current_point < Len(drive.route)
    /\ UpdateTruckStatus(drive.truck_id, drive.route[drive.current_point + 1])
    /\ drive' = [drive EXCEPT !.current_point = @ + 1]
    /\ UNCHANGED << optVars, threads, dmsVars, ctorVars, constructed, walk, breakdown >>

\* lines 85-86: the last point has been reported
DriveEnds ==
    /\ drive.pc = "driving"
    /\ drive.current_point >= Len(drive.route)
    /\ drive' = [drive EXCEPT !.pc = "done"]
    /\ UNCHANGED << optVars, drsVars, threads, dmsVars, ctorVars, constructed,
                    walk, breakdown >>

DriveStarts == {<<0, 0>>, <<3, 4>>}
DriveDropoffs == {<<3, 4>>, <<0, 4>>}

\* a client that registers trucks and deliveries, assigns, reports
\* breakdowns, and at some moment drives one truck along its route
NextDrive ==
    \/ \E t \in TruckIds, l \in DriveStarts :
          /\ drive.pc = "idle"
          /\ AddTruck(t, 21, l)
          /\ UNCHANGED << optVars, auxVars >>
    \/ \E d \in DeliveryIds, p \in Pickups, q \in DriveDropoffs :
          /\ drive.pc = "idle"
          /\ AddDelivery(d, p, q, 10, NoWindow)
          /\ UNCHANGED << optVars, auxVars >>
    \/ \E d \in DeliveryIds :
          /\ drive.pc = "idle"
          /\ AssignDelivery(d)
          /\ UNCHANGED << optVars, auxVars >>
    \/ \E t \in TruckIds :
          /\ drive.pc = "idle"
          /\ HandleTruckBreakdown(t)
          /\ UNCHANGED << optVars, auxVars >>
    \/ \E t \in TruckIds, reported \in {0, 1} : DriveBegins(t, reported)
    \/ DriveStep
    \/ DriveEnds

SpecDrive == Init /\ [][NextDrive]_vars

(***************************************************************************)
(* Properties of the optimizer (checked under SpecOpt)                     *)
(***************************************************************************)
Distinct(st) == \A i, j \in 1..Len(st) : i # j => st[i] # st[j]

\* r visits exactly the stops of st, starting at st[1], and ends with one
\* more copy of st[1] when the instance returns to the depot
IsRouteOf(r, st, return_to_depot) ==
    /\ r # <<>>
    /\ r[1] = st[1]
    /\ IF return_to_depot
       THEN /\ Len(r) = Len(st) + 1
            /\ r[Len(r)] = st[1]
            /\ SameBag(SubSeq(r, 1, Len(r) - 1), st)
       ELSE SameBag(r, st)

\* C1: every optimize_route call with at least 3 pairwise-distinct stops,
\* also one that follows earlier calls on the same instance, returns a
\* permutation of its own input that starts at stop 0 (plus the trailing
\* depot when return_to_depot is set).
C1_ReturnsPermutationOfInput ==
    (opt_status = "returned" /\ Len(opt_arg) >= 3 /\ Distinct(opt_arg))
        => IsRouteOf(opt_ret, opt_arg, cfg.return_to_depot)

\* C10: a call with 1 or 2 stops returns its argument unchanged (no depot
\* appended) and leaves best_route, best_distance, the pheromone matrix and
\* the clusters as they were.
C10_ShortListReturnedUnchanged ==
    [][\A st \in OptStopLists :
          (OptimizeRouteEnter(st) /\ Len(st) \in {1, 2})
              => /\ opt_status' = "returned"
                 /\ opt_ret' = st
                 /\ opt_pc' = "idle"
                 /\ best_route' = best_route
                 /\ best_distance' = best_distance
                 /\ pheromone_matrix' = pheromone_matrix
                 /\ clusters' = clusters]_vars

\* a two-stop call has returned on an instance that returns to the depot and
\* that already holds a best route from an earlier call
C10_Witness ==
    /\ opt_status = "returned"
    /\ Len(opt_arg) = 2
    /\ opt_ret = opt_arg
    /\ cfg.return_to_depot
    /\ best_route # <<>>
    /\ pheromone_matrix # <<>>

\* C11: the optimizer carries nothing from one call into the next: every
\* call with at least 3 stops begins with no best route and an unbounded
\* best length, whatever calls were made before on the instance, and returns
\* a route constructed during the call.
C11_NoStateCarriedIntoCall ==
    (opt_status \in {"running", "returned"} /\ Len(opt_arg) >= 3)
        => /\ opt_entry = << <<>>, Infinity >>
           /\ opt_status = "returned" =>
                 opt_ret \in _construct_solution(opt_arg,
                                _initialize_pheromones(opt_arg, <<>>, cfg.initial_pheromone),
                                calculate_visibility_matrix(opt_arg),
                                cfg.alpha, cfg.beta, cfg.return_to_depot)

\* C16: optimize_route with an empty stop list fails with an input error
\* and leaves the matrices, the clusters, the best route and the best
\* length of the optimizer as they were.
C16_EmptyListRaisesFirst ==
    [][(opt_arg' = <<>> /\ OptimizeRouteEnter(<<>>))
          => /\ opt_status' = "raised"
             /\ opt_pc' = "idle"
             /\ UNCHANGED << stops, distance_matrix, visibility_matrix, pheromone_matrix,
                             clusters, best_route, best_distance >>]_vars

\* the call with the empty list was made on an instance that already held
\* matrices and a best route from an earlier call
C16_Witness ==
    /\ opt_status = "raised"
    /\ opt_arg = <<>>
    /\ calls >= 2
    /\ best_route # <<>>
    /\ pheromone_matrix # <<>>

\* the earliest of the shortest candidates in a history of <<route, distance>>
EarliestShortest(h) ==
    h[CHOOSE k \in 1..Len(h) :
         /\ \A m \in 1..Len(h) : h[k][2] <= h[m][2]
         /\ \A m \in 1..(k - 1) : h[m][2] > h[k][2]]

\* C20: during the first call on a fresh optimizer, with at least 3 stops,
\* the best-so-far length never increases and the best route is replaced
\* only by a strictly shorter candidate; at every moment it is the earliest
\* shortest candidate built so far, and the route returned is the earliest
\* shortest candidate of all ants of all rounds.
C20_ReturnsEarliestGlobalBest ==
    /\ [](constructed # <<>> =>
            /\ <<best_route, best_distance>> = EarliestShortest(constructed)
            /\ opt_status = "returned" =>
                  /\ opt_ret = EarliestShortest(constructed)[1]
                  /\ Len(constructed) = cfg.num_ants * cfg.iterations)
    /\ [][/\ best_distance' <= best_distance
          /\ best_route' # best_route =>
                /\ best_distance' < best_distance
                /\ constructed' # constructed
                /\ <<best_route', best_distance'>> = constructed'[Len(constructed')]]_vars

\* the call has returned a route of the first round that is shorter than
\* every route of the last round
C20_Witness ==
    /\ opt_status = "returned"
    /\ Len(opt_arg) >= 3
    /\ Len(constructed) = 4
    /\ opt_ret \in {constructed[1][1], constructed[2][1]}
    /\ constructed[3][2] > best_distance
    /\ constructed[4][2] > best_distance

(***************************************************************************)
(* Properties of the assignment and recovery engine                        *)
(***************************************************************************)
TruckOf(tr, truck_id) == tr[TruckPos(tr, truck_id)]

\* the step is an assign_delivery(d) call that binds the pending delivery d
AssignBinds(d) ==
    /\ last_op' = "assign" /\ last_arg' = d
    /\ d \in DOMAIN deliveries
    /\ deliveries[d].status = "pending"
    /\ deliveries'[d].status = "in_progress"
    /\ AssignDelivery(d)

\* the step is a handle_truck_breakdown(v) call on a registered truck v
BreaksDown(v) ==
    /\ last_op' = "breakdown" /\ last_arg' = v
    /\ v \in RegisteredIds(trucks)
    /\ HandleTruckBreakdown(v)

\* the eligibility of spec section 4.2, written on the fields
CapacityCovers(truck, w) ==
    /\ truck.current_capacity >= w
    /\ truck.total_weight + w <= truck.max_capacity

WindowAllows(truck, delivery, t) ==
    delivery.time_window = NoWindow
    \/ /\ t <= delivery.time_window[2]
       /\ 60 * euclidean_distance(truck.current_location, delivery.pickup)
             <= SpeedKmh * (delivery.time_window[2] - Max2(t, delivery.time_window[1]))

Eligible(truck, delivery, t) ==
    CapacityCovers(truck, delivery.weight) /\ WindowAllows(truck, delivery, t)

\* the example of the capacity rule: capacity 1000 with 600 committed
ExampleTruck ==
    [add_truck(1, 1000, <<0, 0>>) EXCEPT !.total_weight = 600, !.current_capacity = 400]

\* C2: assign_delivery binds a task only to a vehicle whose remaining
\* capacity covers the weight and whose committed weight plus the weight is
\* at most max_capacity, so the committed weight after the assignment never
\* exceeds max_capacity; with capacity 1000 and 600 committed, weight 500 is
\* rejected and weight 300 is accepted, the committed weight becoming 900.
C2_AssignRespectsCapacity ==
    [][/\ \A d \in DeliveryIds :
             AssignBinds(d) =>
                LET t == deliveries'[d].assigned_truck
                    w == deliveries[d].weight
                IN  /\ t \in RegisteredIds(trucks)
                    /\ CapacityCovers(TruckOf(trucks, t), w)
                    /\ TruckOf(trucks', t).total_weight = TruckOf(trucks, t).total_weight + w
                    /\ TruckOf(trucks', t).total_weight <= TruckOf(trucks', t).max_capacity
       /\ ~HasCapacity(ExampleTruck, [weight |-> 500])
       /\ HasCapacity(ExampleTruck, [weight |-> 300])
       /\ BindTruck(ExampleTruck, 1, 300).total_weight = 900]_vars

\* a second delivery was bound to a truck that already carried one
C2_Witness ==
    /\ last_op = "assign"
    /\ last_ret = "True"
    /\ \E i \in 1..Len(trucks) :
          /\ Len(trucks[i].deliveries) = 2
          /\ trucks[i].deliveries[2] = last_arg
          /\ trucks[i].total_weight = trucks[i].max_capacity

\* C3: after handle_truck_breakdown(v) on a registered v, v is not in the
\* registry, and every task that was in v's list is either in_progress on a
\* registered vehicle that lists it, or pending with no owner.
C3_BreakdownLosesNoTask ==
    [][\A v \in TruckIds :
          BreaksDown(v) =>
             /\ v \notin RegisteredIds(trucks')
             /\ \A d \in Range(TruckOf(trucks, v).deliveries) :
                   \/ /\ deliveries'[d].status = "in_progress"
                      /\ deliveries'[d].assigned_truck \in RegisteredIds(trucks')
                      /\ d \in Range(TruckOf(trucks', deliveries'[d].assigned_truck).deliveries)
                   \/ /\ deliveries'[d].status = "pending"
                      /\ deliveries'[d].assigned_truck = NoTruck]_vars

\* a breakdown detached two tasks, rebound the first and left the second
\* pending
C3_Witness ==
    /\ last_op = "breakdown"
    /\ Len(last_detached) = 2
    /\ last_rebound = <<last_detached[1]>>
    /\ last_arg \notin RegisteredIds(trucks)
    /\ \E d \in Range(last_detached) :
          deliveries[d].status = "pending" /\ deliveries[d].assigned_truck = NoTruck

\* C4: when assign_delivery succeeds, the chosen vehicle passes the checks
\* and no vehicle that passes them is nearer to the pickup; among equally
\* near ones the chosen vehicle comes first in the registry.
C4_NearestEligibleFirstWins ==
    [][\A d \in DeliveryIds :
          AssignBinds(d) =>
             LET t == deliveries'[d].assigned_truck
                 dist(i) == euclidean_distance(trucks[i].current_location,
                                               deliveries[d].pickup)
             IN  /\ t \in RegisteredIds(trucks)
                 /\ Eligible(TruckOf(trucks, t), deliveries[d], now)
                 /\ \A i \in 1..Len(trucks) :
                       Eligible(trucks[i], deliveries[d], now) =>
                          /\ dist(TruckPos(trucks, t)) <= dist(i)
                          /\ dist(TruckPos(trucks, t)) = dist(i) => TruckPos(trucks, t) <= i]_vars

\* two trucks, both able to take the task and equally far from the pickup:
\* the first registered one received it
C4_Witness ==
    /\ last_op = "assign"
    /\ last_ret = "True"
    /\ Len(trucks) = 2
    /\ trucks[1].deliveries = <<last_arg>>
    /\ trucks[2].deliveries = <<>>
    /\ trucks[2].max_capacity >= deliveries[last_arg].weight
    /\ trucks[1].current_location = trucks[2].current_location

\* C5: when no registered vehicle satisfies the constraints for a pending
\* task, assign_delivery returns False, the task stays pending with no
\* owner and no vehicle changes; this holds at every attempt.
C5_NoCandidateChangesNothing ==
    [][\A d \in DeliveryIds :
          ( /\ d \in DOMAIN deliveries
            /\ deliveries[d].status = "pending"
            /\ \A i \in 1..Len(trucks) : ~Eligible(trucks[i], deliveries[d], now)
            /\ AssignDelivery(d) )
          => /\ last_ret' = "False"
             /\ deliveries' = deliveries
             /\ deliveries'[d].assigned_truck = NoTruck
             /\ trucks' = trucks
             /\ ciaco' = ciaco]_vars

\* an attempt has failed for a task heavier than every registered truck's
\* maximum capacity
C5_Witness ==
    /\ last_op = "assign"
    /\ last_ret = "False"
    /\ trucks # <<>>
    /\ last_arg \in DOMAIN deliveries
    /\ deliveries[last_arg].status = "pending"
    /\ deliveries[last_arg].assigned_truck = NoTruck
    /\ \A i \in 1..Len(trucks) : trucks[i].max_capacity < deliveries[last_arg].weight

\* C6: assign_delivery binds a task with a time window (start, end) only to
\* a vehicle for which now <= end and max(now, start) + distance / 80 hours
\* <= end; a vehicle 5 units from the pickup with a window of one hour from
\* now is eligible; once now is past end no assign_delivery binds the task.
C6_AssignRespectsTimeWindow ==
    [][/\ \A d \in DeliveryIds :
             (AssignBinds(d) /\ deliveries[d].time_window # NoWindow) =>
                LET truck == TruckOf(trucks, deliveries'[d].assigned_truck)
                    start == deliveries[d].time_window[1]
                    end == deliveries[d].time_window[2]
                IN  /\ now <= end
                    /\ 60 * euclidean_distance(truck.current_location, deliveries[d].pickup)
                          <= SpeedKmh * (end - Max2(now, start))
       /\ \A d \in DeliveryIds :
             ( /\ d \in DOMAIN deliveries
               /\ deliveries[d].status = "pending"
               /\ deliveries[d].time_window # NoWindow
               /\ now > deliveries[d].time_window[2]
               /\ AssignDelivery(d) )
             => last_ret' = "False" /\ deliveries' = deliveries /\ trucks' = trucks
       /\ _can_meet_time_window([current_location |-> <<0, 0>>], [pickup |-> <<3, 4>>],
                                0, 60, 0)]_vars

\* one task was bound inside its window to a truck that had to travel, and an
\* attempt on another task has failed after its window closed
C6_Witness ==
    /\ last_op = "assign"
    /\ last_ret = "False"
    /\ last_arg \in DOMAIN deliveries
    /\ deliveries[last_arg].status = "pending"
    /\ now > deliveries[last_arg].time_window[2]
    /\ \E d \in DOMAIN deliveries, i \in 1..Len(trucks) :
          /\ deliveries[d].status = "in_progress"
          /\ deliveries[d].time_window # NoWindow
          /\ trucks[i].id = deliveries[d].assigned_truck
          /\ trucks[i].current_location # deliveries[d].pickup

\* the in-progress tasks of a truck whose dropoff is at loc, in list order
DueAt(truck, dl, loc) ==
    SelectSeq(truck.deliveries,
              LAMBDA d : dl[d].status = "in_progress"
                         /\ euclidean_distance(loc, dl[d].dropoff) = 0)

WeightOf(dl, list) == SumSeq([m \in 1..Len(list) |-> dl[list[m]].weight])

\* C7: update_truck_status(v, loc) sets v's location to loc and completes
\* every in-progress task of v whose dropoff is at loc, adjacent ones in the
\* list included: status completed, weight back on the remaining capacity
\* and off the committed weight, task off the list, all in that one call.
C7_UpdateCompletesEveryTaskAtLocation ==
    [][\A v \in TruckIds, loc \in Corners :
          ( /\ last_op' = "update" /\ last_arg' = v
            /\ v \in RegisteredIds(trucks)
            /\ UpdateTruckStatus(v, loc) )
          => LET before == TruckOf(trucks, v)
                 after == TruckOf(trucks', v)
                 due == DueAt(before, deliveries, loc)
             IN  /\ after.current_location = loc
                 /\ \A d \in Range(due) :
                       /\ deliveries'[d].status = "completed"
                       /\ d \notin Range(after.deliveries)
                 /\ after.current_capacity =
                       before.current_capacity + WeightOf(deliveries, due)
                 /\ after.total_weight = before.total_weight - WeightOf(deliveries, due)]_vars

\* what a caller can infer from the returned value about the set of rebound
\* tasks: all of them on True, some proper subset on False
ToldBy(ret, detached) ==
    IF ret = "True" THEN {Range(detached)}
    ELSE {S \in SUBSET Range(detached) : S # Range(detached)}

\* C8: the value returned by handle_truck_breakdown tells, for each detached
\* task, whether it was rebound: the rebound set is the only one the return
\* value allows.
C8_ReturnIdentifiesReboundTasks ==
    (last_op = "breakdown" /\ last_detached # <<>>)
        => ToldBy(last_ret, last_detached) = {Range(last_rebound)}

\* C9: for a registered v, handle_truck_breakdown(v) returns True exactly
\* when every task of v's list ends in_progress on another registered
\* vehicle, hence True when v had no task; a task is left pending only when
\* no remaining vehicle could take it, also after an earlier task failed.
C9_SuccessIffAllRebound ==
    [][\A v \in TruckIds :
          BreaksDown(v) =>
             LET list == TruckOf(trucks, v).deliveries
             IN  /\ last_ret' \in {"True", "False"}
                 /\ last_ret' = "True" <=>
                       \A d \in Range(list) :
                          /\ deliveries'[d].status = "in_progress"
                          /\ deliveries'[d].assigned_truck \in RegisteredIds(trucks') \ {v}
                 /\ list = <<>> => last_ret' = "True"
                 /\ \A d \in Range(list) :
                       deliveries'[d].status = "pending" =>
                          \A i \in 1..Len(trucks') :
                             OverloadDen * trucks'[i].current_capacity
                                < OverloadNum * deliveries'[d].weight]_vars

\* the first detached task found no vehicle, the call went on and rebound
\* the second, and reported failure
C9_Witness ==
    /\ last_op = "breakdown"
    /\ last_ret = "False"
    /\ Len(last_detached) = 2
    /\ last_rebound = <<last_detached[2]>>
    /\ deliveries[last_detached[1]].status = "pending"
    /\ deliveries[last_detached[2]].status = "in_progress"

(***************************************************************************)
(* Properties of the DeliveryManagementSystem (checked under SpecDms)      *)
(***************************************************************************)
DmsOrders ==
    {Order(NextOrderId, w, p, q) : w \in DmsWeights, p \in Pickups, q \in DmsDropoffs}

\* an evaluated truck passes the route test of spec section 4.4
WithinSlack(e) ==
    10 * e.new_distance <= 12 * e.current_distance \/ e.current_distance = 0

\* the ids of the trucks with enough remaining capacity, in registration order
WithCapacity(tr, w) ==
    LET able == SelectSeq(tr, LAMBDA t : t.remaining_capacity >= w)
    IN  [m \in 1..Len(able) |-> able[m].truck_id]

\* C12: assign_new_order gives the order to a truck only if its remaining
\* capacity covers the weight and the recomputed route is at most 1.2 times
\* as long as its previous route, or that one has length 0; the trucks with
\* capacity are evaluated in registration order and the first that passes
\* gets the order; if none passes the call returns None and no truck changes.
C12_FirstFeasibleTruckGetsOrder ==
    [][\A order \in DmsOrders :
          (dms_order' = order /\ AssignNewOrder(order)) =>
             LET ev == dms_evaluated'
                 able == WithCapacity(dms_trucks, order.weight)
             IN  /\ Len(ev) <= Len(able)
                 /\ \A k \in 1..Len(ev) : ev[k].truck_id = able[k]
                 /\ \A k \in 1..(Len(ev) - 1) : ~WithinSlack(ev[k])
                 /\ IF dms_ret' = NoTruck
                    THEN /\ dms_trucks' = dms_trucks
                         /\ Len(ev) = Len(able)
                         /\ \A k \in 1..Len(ev) : ~WithinSlack(ev[k])
                    ELSE LET pos == CHOOSE i \in 1..Len(dms_trucks) :
                                        dms_trucks[i].truck_id = dms_ret'
                             before == dms_trucks[pos]
                             after == dms_trucks'[pos]
                         IN  /\ ev # <<>> /\ ev[Len(ev)].truck_id = dms_ret'
                             /\ before.remaining_capacity >= order.weight
                             /\ WithinSlack([new_distance |->
                                                total_route_distance(after.route, TRUE),
                                             current_distance |->
                                                total_route_distance(before.route, TRUE)])
                             /\ after.assigned_orders = Append(before.assigned_orders, order)
                             /\ after.remaining_capacity =
                                   before.remaining_capacity - order.weight
                             /\ \A i \in 1..Len(dms_trucks) :
                                   i # pos => dms_trucks'[i] = dms_trucks[i]]_vars

\* the first truck had the capacity but its new route was too long; the
\* second truck received the order
C12_Witness ==
    /\ dms_ret = 2
    /\ Len(dms_evaluated) = 2
    /\ dms_evaluated[1].truck_id = 1
    /\ dms_evaluated[1].current_distance > 0
    /\ dms_trucks[2].assigned_orders = <<dms_order>>

(***************************************************************************)
(* Further properties of the assignment and recovery engine                *)
(***************************************************************************)
\* C13: assign_delivery with an id that is not in the registry, or with a
\* task that is in_progress or completed, returns False and changes no task
\* and no vehicle record; no step makes a completed task anything else.
C13_NonPendingRejected ==
    [][/\ \A d \in DeliveryIds :
             ( /\ last_op' = "assign" /\ last_arg' = d
               /\ (d \notin DOMAIN deliveries \/ deliveries[d].status # "pending")
               /\ AssignDelivery(d) )
             => /\ last_ret' = "False"
                /\ deliveries' = deliveries
                /\ trucks' = trucks
       /\ \A d \in DOMAIN deliveries :
             deliveries[d].status = "completed" =>
                d \in DOMAIN deliveries' /\ deliveries'[d].status = "completed"]_vars

\* assign_delivery was called for a completed task and returned False
C13_Witness ==
    /\ last_op = "assign"
    /\ last_ret = "False"
    /\ last_arg \in DOMAIN deliveries
    /\ deliveries[last_arg].status = "completed"

\* C14: an unknown id passed to assign_delivery, update_truck_status or
\* handle_truck_breakdown ends the call with an input error, which is not
\* one of the ordinary results (True, False, None), and changes nothing.
C14_UnknownIdIsInputError ==
    [][/\ \A d \in DeliveryIds :
             ( /\ last_op' = "assign" /\ last_arg' = d
               /\ d \notin DOMAIN deliveries
               /\ AssignDelivery(d) )
             => /\ last_ret' \notin {"True", "False", "None"}
                /\ deliveries' = deliveries /\ trucks' = trucks
       /\ \A t \in TruckIds :
             ( /\ last_op' \in {"update", "breakdown"} /\ last_arg' = t
               /\ t \notin RegisteredIds(trucks)
               /\ \/ HandleTruckBreakdown(t)
                  \/ \E l \in Corners : UpdateTruckStatus(t, l) )
             => /\ last_ret' \notin {"True", "False", "None"}
                /\ deliveries' = deliveries /\ trucks' = trucks]_vars

\* C17: assign_delivery and handle_truck_breakdown are atomic on the
\* registry: with calls running concurrently, no task is ever in_progress
\* on a vehicle that is not registered, and no vehicle is committed beyond
\* its maximum capacity.
C17_ConcurrentCallsAtomic ==
    /\ \A d \in DOMAIN deliveries :
          deliveries[d].status = "in_progress" =>
             deliveries[d].assigned_truck \in RegisteredIds(trucks)
    /\ \A i \in 1..Len(trucks) : trucks[i].total_weight <= trucks[i].max_capacity

\* C18: after a truck holding in-progress deliveries was deleted from the
\* registry, assign_delivery for a delivery it held succeeds whenever another
\* registered truck has the capacity, and the delivery ends in_progress on a
\* registered truck.
C18_DeletedTrucksDeliveriesReassigned ==
    [][\A d \in DeliveryIds :
          ( /\ last_op' = "assign" /\ last_arg' = d
            /\ d \in DOMAIN deliveries
            /\ deliveries[d].status = "in_progress"
            /\ deliveries[d].assigned_truck \notin RegisteredIds(trucks)
            /\ \E i \in 1..Len(trucks) : CapacityCovers(trucks[i], deliveries[d].weight)
            /\ AssignDelivery(d) )
          => /\ last_ret' = "True"
             /\ deliveries'[d].status = "in_progress"
             /\ deliveries'[d].assigned_truck \in RegisteredIds(trucks')]_vars

\* the stop list of spec section 4.2 for truck after it was given delivery d
ExpectedStops(truck, dl, d) ==
    LET others == SelectSeq(truck.deliveries,
                            LAMBDA e : e # d /\ dl[e].status = "in_progress")
    IN  <<truck.current_location>>
        \o [m \in 1..Len(others) |-> dl[others[m]].dropoff]
        \o <<dl[d].pickup, dl[d].dropoff>>

\* C19: on a successful assign_delivery the stop list passed to the
\* optimizer is the vehicle's location, the dropoffs of its other
\* in-progress tasks, then the new task's pickup and dropoff, the new
\* dropoff listed once; with pairwise distinct points it has no duplicate.
C19_StopListHasNewDropoffOnce ==
    [][\A d \in DeliveryIds :
          AssignBinds(d) =>
             LET truck == TruckOf(trucks', deliveries'[d].assigned_truck)
                 passed == RouteStops(truck, deliveries', d)
             IN  /\ passed = ExpectedStops(truck, deliveries', d)
                 /\ Count(passed, deliveries[d].dropoff) = 1
                       \/ deliveries[d].dropoff \in
                             {truck.current_location, deliveries[d].pickup}
                       \/ \E e \in Range(truck.deliveries) :
                             e # d /\ deliveries[e].dropoff = deliveries[d].dropoff]_vars

(***************************************************************************)
(* Properties of the constructor (checked under SpecCtor)                  *)
(***************************************************************************)
\* the constraints of spec section 3, in order, as violated by a
Violations(a) ==
    << a.num_ants <= 0, a.iterations <= 0, a.alpha < 0, a.beta < 0,
       a.evaporation_pct < 0 \/ a.evaporation_pct > 100,
       a.initial_pheromone <= 0, a.num_clusters <= 0, a.elitist_factor < 1 >>

ErrorMessages ==
    << "Number of ants must be positive", "Number of iterations must be positive",
       "Alpha must be non-negative", "Beta must be non-negative",
       "Evaporation rate must be between 0 and 1", "Initial pheromone must be positive",
       "Number of clusters must be positive", "Elitist factor must be >= 1" >>

\* C15: constructing an optimizer succeeds exactly when all eight
\* constraints hold; otherwise it raises the error whose message names the
\* first violated constraint in their order, and produces no instance.
C15_ConstructorValidates ==
    ctor_result # None =>
        LET v == Violations(ctor_args)
            bad == {i \in 1..Len(v) : v[i]}
        IN  /\ ctor_result = "ok" <=> bad = {}
            /\ bad = {} => cfg = ctor_args
            /\ bad # {} =>
                  /\ cfg = NoInstance
                  /\ ctor_result = ErrorMessages[CHOOSE i \in bad : \A j \in bad : i <= j]

\* a construction with two violated constraints has raised for the first
C15_Witness ==
    /\ ctor_result = "Alpha must be non-negative"
    /\ ctor_args.alpha < 0
    /\ ctor_args.num_clusters <= 0
    /\ cfg = NoInstance

(***************************************************************************)
(* Properties of the recovery loop (checked under SpecRecovery)            *)
(***************************************************************************)
\* the registered trucks whose remaining capacity is at least 90% of w
AbleToTake(tr, w) == {i \in 1..Len(tr) : 10 * tr[i].current_capacity >= 9 * w}

PickupDistance(truck, delivery) ==
    euclidean_distance(truck.current_location, delivery.pickup)

\* C21: in handle_truck_breakdown a detached delivery is rebound exactly
\* when, at the moment it is processed, some remaining truck has a remaining
\* capacity of at least 90% of its weight; it then goes to a nearest such
\* truck (distance from the truck to the pickup) with the updates of a
\* successful assign: status in_progress, owner set, id appended to the
\* truck's list, remaining capacity lowered and committed weight raised by
\* the full weight, route replaced by what the optimizer returned; without
\* such a truck the delivery stays pending and nothing changes.
C21_LenientRebindRule ==
    [][(/\ breakdown.pc = "loop"
        /\ breakdown.queue # <<>>
        /\ breakdown' # breakdown)
       => LET d == Head(breakdown.queue)
              w == deliveries[d].weight
              able == AbleToTake(trucks, w)
          IN  IF able = {}
              THEN /\ deliveries' = deliveries
                   /\ trucks' = trucks
                   /\ deliveries[d].status = "pending"
              ELSE \E i \in able :
                      /\ \A j \in able : PickupDistance(trucks[i], deliveries[d])
                                            <= PickupDistance(trucks[j], deliveries[d])
                      /\ deliveries' = [deliveries EXCEPT
                                            ![d].status = "in_progress",
                                            ![d].assigned_truck = trucks[i].id]
                      /\ Len(trucks') = Len(trucks)
                      /\ \A j \in 1..Len(trucks) : j # i => trucks'[j] = trucks[j]
                      /\ trucks'[i] = [trucks[i] EXCEPT
                                          !.deliveries = Append(@, d),
                                          !.current_capacity = @ - w,
                                          !.total_weight = @ + w,
                                          !.current_route = ciaco'.best_route]
      ]_vars

\* inside a breakdown: one detached delivery found no truck, a later one was
\* taken by a truck that it overloads
C21_Witness ==
    /\ breakdown.pc = "loop"
    /\ breakdown.queue = <<>>
    /\ ~breakdown.success
    /\ Len(last_rebound) = 1
    /\ \E i \in 1..Len(trucks) :
          /\ trucks[i].current_capacity < 0
          /\ last_rebound[1] \in Range(trucks[i].deliveries)

\* C22: handle_truck_breakdown tries the detached deliveries in order of
\* non-increasing weight, equal weights in the order of the broken truck's
\* list, and only after every one of them is pending again and the broken
\* truck is gone from the registry; no delivery is tried while a heavier
\* one is still waiting.
C22_HeaviestDetachedFirst ==
    [][/\ (breakdown.pc = "idle" /\ breakdown'.pc = "loop")
          => LET v == breakdown'.truck_id
                 list == TruckOf(trucks, v).deliveries
                 q == breakdown'.queue
             IN  /\ SameBag(q, list)
                 /\ \A a, b \in 1..Len(q) :
                        a < b =>
                          /\ deliveries[q[a]].weight >= deliveries[q[b]].weight
                          /\ deliveries[q[a]].weight = deliveries[q[b]].weight
                                => IndexOf(list, q[a]) < IndexOf(list, q[b])
                 /\ v \notin RegisteredIds(trucks')
                 /\ \A m \in 1..Len(q) :
                        /\ deliveries'[q[m]].status = "pending"
                        /\ deliveries'[q[m]].assigned_truck = NoTruck
       /\ (breakdown.pc = "loop" /\ breakdown' # breakdown /\ breakdown'.pc = "loop")
          => /\ breakdown'.queue = Tail(breakdown.queue)
             /\ \A e \in DOMAIN deliveries :
                    deliveries'[e] # deliveries[e] => e = Head(breakdown.queue)
             /\ \A m \in 1..Len(breakdown'.queue) :
                    LET e == breakdown'.queue[m]
                    IN  /\ deliveries[e].status = "pending"
                        /\ deliveries[e].weight <= deliveries[Head(breakdown.queue)].weight
      ]_vars

\* a breakdown with two detached deliveries of different weights waiting,
\* the heavier one, which was registered later, first
C22_Witness ==
    /\ breakdown.pc = "loop"
    /\ Len(breakdown.queue) = 2
    /\ breakdown.queue[1] > breakdown.queue[2]
    /\ deliveries[breakdown.queue[1]].weight > deliveries[breakdown.queue[2]].weight

(***************************************************************************)
(* Properties of route construction (checked under SpecDraw)               *)
(***************************************************************************)
\* every weight random.choices is given for an unvisited index is zero
AllUnvisitedWeightsZero ==
    /\ walk.pc = "walking"
    /\ walk.unvisited # {}
    /\ \A j \in walk.unvisited :
          pheromone_matrix[walk.current][j] = 0 \/ visibility_matrix[walk.current][j] = 0

\* C23: an optimize_route call with at least 3 stops returns, after exactly
\* `iterations` rounds of exactly `num_ants` constructions each; every
\* construction ends with each stop index other than the depot visited
\* exactly once; with fair draws the redraw loop always reaches an
\* unvisited index, also when all the unvisited weights are zero and the
\* draw is uniform over all indices.
C23_CallTerminatesAfterAllRounds ==
    /\ []((opt_status = "returned" /\ Len(opt_arg) >= 3)
            => /\ iteration = cfg.iterations
               /\ Len(constructed) = cfg.iterations * cfg.num_ants)
    /\ []((walk.pc = "walking" /\ walk.unvisited = {})
            => /\ Len(walk.order) = Len(stops)
               /\ walk.order[1] = 1
               /\ \A j \in 2..Len(stops) : Count(walk.order, j) = 1)
    /\ []((opt_status = "running" /\ Len(ant_routes) = cfg.num_ants)
            => Len(constructed) = (iteration + 1) * cfg.num_ants)
    /\ (opt_status = "running") ~> (opt_status = "returned")
    /\ (walk.pc = "walking") ~> (walk.pc = "idle")

\* with every unvisited weight zero an already visited index was drawn,
\* and the draw is repeated
C23_Witness ==
    /\ AllUnvisitedWeightsZero
    /\ cfg.evaporation_pct = 100
    /\ iteration = 1
    /\ walk.drawn # 0
    /\ walk.drawn # walk.current
    /\ walk.drawn \notin walk.unvisited

(***************************************************************************)
(* Properties of the clustering seeder (checked under SpecCluster)         *)
(***************************************************************************)
\* the places <<group, position>> at which index i is listed
PlacesOf(cls, i) ==
    {gm \in (1..Len(cls)) \X (1..Len(stops)) :
        gm[2] <= Len(cls[gm[1]]) /\ cls[gm[1]][gm[2]] = i}

\* C24: the groups returned by _cluster_stops partition the stop indices:
\* every index is listed in exactly one group, once; with n <= num_clusters
\* there are n singleton groups, otherwise exactly num_clusters groups, some
\* of which may be empty (also after a group became empty in an earlier
\* pass); the refinement loop makes at most 100 passes.
C24_ClustersPartitionStops ==
    stops # <<>> =>
        LET n == Len(stops)
            k == cfg.num_clusters
        IN  /\ \A i \in 1..n : Cardinality(PlacesOf(clusters, i)) = 1
            /\ \A g \in 1..Len(clusters) : Range(clusters[g]) \subseteq 1..n
            /\ IF n <= k
               THEN /\ Len(clusters) = n
                    /\ \A g \in 1..n : Len(clusters[g]) = 1
               ELSE /\ Len(clusters) = k
                    /\ \A s \in Samples(n, k) :
                          KMeansPasses(stops, SampledCentroids(stops, s), k, 1) <= 100

\* more stops than groups, and the loop went on after a pass that left a
\* group empty: the result has an empty group
C24_Witness ==
    /\ Len(stops) > cfg.num_clusters
    /\ \E g \in 1..Len(clusters) : clusters[g] = <<>>
    /\ \E g \in 1..Len(clusters) : Len(clusters[g]) >= 2
    /\ \E s \in Samples(Len(stops), cfg.num_clusters) :
          /\ KMeansLoop(stops, SampledCentroids(stops, s), cfg.num_clusters, 1) = clusters
          /\ KMeansPasses(stops, SampledCentroids(stops, s), cfg.num_clusters, 1) >= 2

(***************************************************************************)
(* Properties of the pheromone field (checked under SpecOpt)               *)
(***************************************************************************)
\* C25: the pheromone matrix is symmetric: entry (i, j) equals entry (j, i),
\* after the initialisation with its boost inside clusters and after the
\* update that ends every round, whatever routes the ants built.
C25_PheromoneSymmetric ==
    \A i, j \in DOMAIN pheromone_matrix :
        pheromone_matrix[i][j] = pheromone_matrix[j][i]

\* after a round's update of a matrix that was boosted inside a cluster:
\* the entries are no longer all alike
C25_Witness ==
    /\ opt_pc = "loop"
    /\ iteration >= 1
    /\ \E g \in 1..Len(clusters) : Len(clusters[g]) >= 2
    /\ \E i, j, m \in DOMAIN pheromone_matrix :
          /\ i # j
          /\ i # m
          /\ j # m
          /\ pheromone_matrix[i][j] # pheromone_matrix[i][m]

(***************************************************************************)
(* Invariants of the registry (checked under Spec)                         *)
(***************************************************************************)
\* C26: in every reachable state every registered truck has
\* current_capacity + total_weight = max_capacity, and its total_weight is
\* the sum of the weights of the deliveries in its list.
C26_CapacityAccountsForListedTasks ==
    \A i \in 1..Len(trucks) :
        /\ trucks[i].current_capacity + trucks[i].total_weight = trucks[i].max_capacity
        /\ trucks[i].total_weight = WeightOf(deliveries, trucks[i].deliveries)

\* after an update that completed one delivery of a truck and left another
\* one in its list
C26_Witness ==
    /\ last_op = "update"
    /\ \E i \in 1..Len(trucks) :
          /\ trucks[i].id = last_arg
          /\ trucks[i].total_weight > 0
          /\ \E d \in DOMAIN deliveries :
                /\ deliveries[d].status = "completed"
                /\ deliveries[d].assigned_truck = last_arg

\* C27: in every reachable state every registered truck has a remaining
\* capacity of at least 0 and a committed weight of at most its
\* max_capacity.
C27_CapacityNeverExceeded ==
    \A i \in 1..Len(trucks) :
        /\ trucks[i].current_capacity >= 0
        /\ trucks[i].total_weight <= trucks[i].max_capacity

\* the lists of registered trucks in which delivery d occurs, with multiplicity
ListingsOf(tr, d) ==
    SumSeq([i \in 1..Len(tr) |-> Count(tr[i].deliveries, d)])

\* C28: in every reachable state a delivery is in_progress exactly when its
\* assigned_truck is a registered truck whose list holds its id exactly
\* once; a pending delivery has no assigned_truck and is in no list; no id
\* is in the lists of two trucks.
C28_StatusMatchesOwnership ==
    \A d \in DOMAIN deliveries :
        /\ deliveries[d].status = "in_progress"
             <=> /\ deliveries[d].assigned_truck \in RegisteredIds(trucks)
                 /\ Count(TruckOf(trucks, deliveries[d].assigned_truck).deliveries, d) = 1
        /\ deliveries[d].status = "pending"
             => /\ deliveries[d].assigned_truck = NoTruck
                /\ ListingsOf(trucks, d) = 0
        /\ Cardinality({i \in 1..Len(trucks) : d \in Range(trucks[i].deliveries)}) <= 1

\* after a breakdown that gave one detached delivery to another truck and
\* left the other one pending
C28_Witness ==
    /\ last_op = "breakdown"
    /\ Len(last_detached) = 2
    /\ Len(last_rebound) = 1
    /\ \E d, e \in DOMAIN deliveries :
          /\ deliveries[d].status = "pending"
          /\ deliveries[e].status = "in_progress"

(***************************************************************************)
(* Properties of the stored routes (checked under SpecDrive)               *)
(***************************************************************************)
\* C29: after every successful assignment the route stored on the chosen
\* truck starts at that truck's current location and contains the pickup
\* and the dropoff of the delivery just assigned; it is not a route that
\* was computed for another truck or for an earlier stop list.
ServesNewTask(truck, delivery) ==
    /\ truck.current_route # <<>>
    /\ truck.current_route[1] = truck.current_location
    /\ delivery.pickup \in Range(truck.current_route)
    /\ delivery.dropoff \in Range(truck.current_route)

C29_StoredRouteServesNewTask ==
    [][/\ \A d \in DeliveryIds :
             AssignBinds(d) =>
                ServesNewTask(TruckOf(trucks', deliveries'[d].assigned_truck),
                              deliveries[d])
       /\ \A v \in TruckIds :
             BreaksDown(v) =>
                \A i \in 1..Len(trucks') :
                    LET list == trucks'[i].deliveries
                    IN  (list # <<>> /\ list[Len(list)] \in Range(last_rebound'))
                           => ServesNewTask(trucks'[i], deliveries[list[Len(list)]])
      ]_vars

(***************************************************************************)
(* Properties of a drive along the stored route (checked under SpecDrive)  *)
(***************************************************************************)
\* C30: when update_truck_status has been called for a truck with each
\* point of its current route in route order, after the last assignment to
\* it, every delivery that was in_progress on the truck is completed
\* (deliveries with a common dropoff included), its list is empty, its
\* committed weight is 0 and its remaining capacity is its max_capacity.
C30_DrivenRouteCompletesAll ==
    (drive.pc = "done" /\ drive.truck_id \in RegisteredIds(trucks)) =>
        LET truck == TruckOf(trucks, drive.truck_id)
        IN  /\ \A d \in drive.owed : deliveries[d].status = "completed"
            /\ truck.deliveries = <<>>
            /\ truck.total_weight = 0
            /\ truck.current_capacity = truck.max_capacity

====
